---- MODULE Spec2Model ----
(***************************************************************************)
(* A model of the rating, odds and backtest engine of sportsball.          *)
(*                                                                         *)
(*   compute_advanced_stats.py  get_team_records, compute_win_pct,         *)
(*                              compute_sos, compute_srs,                  *)
(*                              compute_home_field_advantage, main         *)
(*   build_odds.py              prob_to_american_odds, apply_vig,          *)
(*                              calculate_power_rating,                    *)
(*                              calculate_matchup_odds, main               *)
(*   backtest_model.py          analyze_predictions, compute_summary       *)
(*   compute_team_stats.py      compute_avg, compute_std,                  *)
(*                              detect_changepoint, compute_consistency,   *)
(*                              compute_team_stats                         *)
(*                                                                         *)
(* Python floats are modelled exactly: ratios of integers are normalised   *)
(* fractions <<numerator, denominator>>, point values of the odds model    *)
(* are integers in hundredths of a point, probabilities are integers in    *)
(* units of 10^-7 (the finest unit whose products fit TLC's integers).     *)
(*                                                                         *)
(*   Spec      get_team_records row by row, compute_win_pct, compute_sos   *)
(*   SpecSrs   main's run over a season table, compute_srs round by round, *)
(*             and the same run a second time                              *)
(*   SpecOdds  prob_to_american_odds and calculate_matchup_odds            *)
(*   SpecBuild main of build_odds.py, one matchup at a time                *)
(*   SpecBack  analyze_predictions and compute_summary of backtest_model   *)
(*   SpecHfa   compute_home_field_advantage and the merge of main          *)
(*   SpecTeam  get_team_records and compute_team_stats on games without a  *)
(*             score                                                       *)
(*   SpecRatios  the guarded ratios on their degenerate inputs             *)
(*   SpecSeries  detect_changepoint on short series and the season trend   *)
(*             of compute_team_stats on whole seasons                      *)
(***************************************************************************)
EXTENDS Integers, Sequences, FiniteSets, TLC

VARIABLES
    pc,        \* position of the run: "idle", "fold", "winpct", "sos", or
               \* "start", "records", "built", "sos", "srs", "done"
    rows,      \* the rows cursor.fetchall() has handed to the loop so far
    records,   \* get_team_records: team -> accumulator record
    wp_rec,    \* the record handed to compute_win_pct
    wp_out,    \* what compute_win_pct returned for it
    sos_in,    \* the records handed to compute_sos
    win_pcts,  \* compute_sos, first pass: team -> win percentage
    sos,       \* compute_sos, second pass: team -> strength of schedule
    season,    \* the games table of the season, in the order it is fetched
    run,       \* which run over the unchanged table this is: 1 or 2
    hand,      \* <<shift, extra>> of records built by hand, NoHand otherwise
    ppd,       \* compute_srs: team -> point differential per game
    srs,       \* compute_srs: team -> rating after `round` rounds
    round,     \* compute_srs: rounds of the loop completed
    first,     \* the ratings the first run returned
    home_stats,  \* calculate_matchup_odds: the home team's stats, <<>> for None
    away_stats,  \* calculate_matchup_odds: the away team's stats, <<>> for None
    odds,        \* calculate_matchup_odds: the dict it returns
    locals,      \* calculate_matchup_odds: its unrounded intermediate values
    ml_in,       \* prob_to_american_odds: the probability passed
    ml_out,      \* prob_to_american_odds: the odds returned
    game,        \* build_odds main: the game of the loop's current turn
    matchup,     \* build_odds main: the matchup appended for it
    preds,       \* analyze_predictions: the predictions the loop has taken
    results,     \* analyze_predictions: the results dict
    summary,     \* compute_summary: the summary returned, <<>> for {}
    table,       \* compute_home_field_advantage: the games table, all seasons
    hfa,         \* compute_home_field_advantage: the dict it returns
    merged,      \* main of compute_advanced_stats: team -> rounded "hfa"
    games,       \* compute_team_stats: the games list passed
    team_code,   \* compute_team_stats: the team it was called for
    team_out,    \* compute_team_stats: what the call came to
    values,      \* compute_consistency: the series passed
    consistency, \* compute_consistency: the score returned, in tenths
    changepoint  \* detect_changepoint: the tuple returned

ratingVars == <<pc, rows, records, wp_rec, wp_out, sos_in, win_pcts, sos>>

srsVars == <<season, run, hand, ppd, srs, round, first>>

oddsVars == <<home_stats, away_stats, odds, locals, ml_in, ml_out>>

buildVars == <<game, matchup>>

\* the state of the programs that run after the ratings and the odds
backVars == <<preds, results, summary>>

hfaVars == <<table, hfa, merged>>

teamVars == <<games, team_code, team_out, values, consistency, changepoint>>

extVars == <<buildVars, backVars, hfaVars, teamVars>>

vars == <<ratingVars, srsVars, oddsVars, extVars>>

----------------------------------------------------------------------------
(* Bounds of the model. *)

MaxRows == 2       \* rows of the games table folded in one run
MaxScore == 1      \* scores range over 0..MaxScore
MaxCount == 1      \* wins, losses and ties of a hand-built record
MaxSeason == 2     \* games in the season table of a rating run
MaxShift == 1      \* points per game added to every team of hand-built records
ProbSteps == 8     \* prob_to_american_odds is tried on multiples of 1/ProbSteps

----------------------------------------------------------------------------
(* Exact fractions: <<n, d>> with d > 0 and gcd(n, d) = 1. *)

Abs(x) == IF x < 0 THEN -x ELSE x

RECURSIVE GCD(_, _)
GCD(a, b) == IF b = 0 THEN a ELSE GCD(b, a % b)

LCM(a, b) == (a \div GCD(a, b)) * b

Rat(n, d) ==
    LET g == GCD(Abs(n), d)
    IN  <<n \div g, d \div g>>

RatInt(n) == <<n, 1>>

Half == Rat(1, 2)

RatAdd(x, y) ==
    LET l == LCM(x[2], y[2])
    IN  Rat(x[1] * (l \div x[2]) + y[1] * (l \div y[2]), l)

RatDivInt(x, n) == Rat(x[1], x[2] * n)

RatMulInt(x, n) == Rat(x[1] * n, x[2])

RatLe(x, y) == x[1] * y[2] <= y[1] * x[2]

RECURSIVE RatSum(_)
RatSum(s) == IF s = <<>> THEN RatInt(0) ELSE RatAdd(RatSum(Tail(s)), Head(s))

----------------------------------------------------------------------------
(* The games table. *)

Teams == {"A", "B", "C"}

\* home_score / away_score IS NULL
NULL == -1

\* (home, away) pairs of the season's schedule
Fixtures == {<<"A", "B">>, <<"B", "A">>, <<"B", "C">>, <<"C", "A">>}

ScoreValues == {NULL} \cup (0 .. MaxScore)

\* one row of SELECT home_team, away_team, home_score, away_score
GameRows ==
    {[home |-> f[1], away |-> f[2], home_score |-> hs, away_score |-> as] :
        f \in Fixtures, hs \in ScoreValues, as \in ScoreValues}

----------------------------------------------------------------------------
(* get_team_records *)

\* the defaultdict factory
NewRecord == [wins |-> 0, losses |-> 0, ties |-> 0, pf |-> 0, pa |-> 0,
              opponents |-> <<>>]

\* records[team]: a defaultdict creates the entry on first access
Touch(recs, team) ==
    IF team \in DOMAIN recs THEN recs ELSE (team :> NewRecord) @@ recs

\* the branch with `>=` for `>`: an equal score is credited as a home win
CreditResultGe(recs, home, away, home_score, away_score) ==
    IF home_score >= away_score THEN
        LET r1 == [recs EXCEPT ![home].wins = @ + 1]
        IN  [r1 EXCEPT ![away].losses = @ + 1]
    ELSE
        LET r1 == [recs EXCEPT ![away].wins = @ + 1]
        IN  [r1 EXCEPT ![home].losses = @ + 1]

\* the win / loss / tie branch of the loop body
CreditResult(recs, home, away, home_score, away_score) ==
    IF home_score > away_score THEN
        LET r1 == [recs EXCEPT ![home].wins = @ + 1]
        IN  [r1 EXCEPT ![away].losses = @ + 1]
    ELSE IF away_score > home_score THEN
        LET r1 == [recs EXCEPT ![away].wins = @ + 1]
        IN  [r1 EXCEPT ![home].losses = @ + 1]
    ELSE
        LET r1 == [recs EXCEPT ![home].ties = @ + 1]
        IN  [r1 EXCEPT ![away].ties = @ + 1]

\* the away team's half of the bookkeeping left out
FoldRowHomeOnly(recs, row) ==
    IF row.home_score = NULL \/ row.away_score = NULL THEN recs
    ELSE
        LET h0 == Touch(recs, row.home)
            h1 == [h0 EXCEPT ![row.home].pf = @ + row.home_score,
                             ![row.home].pa = @ + row.away_score,
                             ![row.home].opponents = Append(@, row.away)]
            a0 == Touch(h1, row.away)
        IN  CreditResult(a0, row.home, row.away, row.home_score, row.away_score)

\* one iteration of the loop over cursor.fetchall()
FoldRow(recs, row) ==
    IF row.home_score = NULL \/ row.away_score = NULL THEN recs
    ELSE
        LET h0 == Touch(recs, row.home)
            h1 == [h0 EXCEPT ![row.home].pf = @ + row.home_score,
                             ![row.home].pa = @ + row.away_score,
                             ![row.home].opponents = Append(@, row.away)]
            a0 == Touch(h1, row.away)
            a1 == [a0 EXCEPT ![row.away].pf = @ + row.away_score,
                             ![row.away].pa = @ + row.home_score,
                             ![row.away].opponents = Append(@, row.home)]
        IN  CreditResult(a1, row.home, row.away, row.home_score, row.away_score)

RECURSIVE FoldRows(_, _)
FoldRows(recs, rs) ==
    IF rs = <<>> THEN recs ELSE FoldRows(FoldRow(recs, Head(rs)), Tail(rs))

\* the whole function on a fetched row list
GetTeamRecords(rs) == FoldRows(<<>>, rs)

----------------------------------------------------------------------------
(* compute_win_pct, compute_sos *)

GamesPlayed(rec) == rec.wins + rec.losses + rec.ties

\* a tie counted as a whole win
compute_win_pct_full_tie(record) ==
    LET total == GamesPlayed(record)
    IN  IF total = 0 THEN Half
        ELSE Rat(record.wins + record.ties, total)

compute_win_pct(record) ==
    LET total == GamesPlayed(record)
    IN  IF total = 0 THEN Half
        ELSE Rat(2 * record.wins + record.ties, 2 * total)

\* win_pcts.get(opp, 0.5)
OppWinPct(wps, opp) == IF opp \in DOMAIN wps THEN wps[opp] ELSE Half

\* [win_pcts.get(opp, 0.5) for opp in rec["opponents"]]
OppWinPcts(wps, opps) == [i \in 1 .. Len(opps) |-> OppWinPct(wps, opps[i])]

WinPcts(recs) == [t \in DOMAIN recs |-> compute_win_pct(recs[t])]

\* the empty schedule answered with 0
TeamSosZeroFallback(wps, rec) ==
    IF rec.opponents = <<>> THEN RatInt(0)
    ELSE RatDivInt(RatSum(OppWinPcts(wps, rec.opponents)), Len(rec.opponents))

TeamSos(wps, rec) ==
    IF rec.opponents = <<>> THEN Half
    ELSE RatDivInt(RatSum(OppWinPcts(wps, rec.opponents)), Len(rec.opponents))

compute_sos(recs) == [t \in DOMAIN recs |-> TeamSos(WinPcts(recs), recs[t])]

\* a hand-built record: any counts, no games listed
HandRecords ==
    {[wins |-> w, losses |-> l, ties |-> t, pf |-> 0, pa |-> 0,
      opponents |-> <<>>] : w \in 0 .. MaxCount, l \in 0 .. MaxCount,
                            t \in 0 .. MaxCount}

\* records zero-filled for the teams in extra
ZeroFilled(recs, extra) ==
    [t \in DOMAIN recs \cup extra |->
        IF t \in DOMAIN recs THEN recs[t] ELSE NewRecord]

----------------------------------------------------------------------------
(* The rating run. *)

Empty == <<>>

InitRating ==
    /\ pc = "idle"
    /\ rows = <<>>
    /\ records = Empty
    /\ wp_rec = NewRecord
    /\ wp_out = Half
    /\ sos_in = Empty
    /\ win_pcts = Empty
    /\ sos = Empty

\* records folded from the table and left as they are
NoHand == <<0, {}>>

InitSrsIdle ==
    /\ season = <<>>
    /\ run = 1
    /\ hand = NoHand
    /\ ppd = Empty
    /\ srs = Empty
    /\ round = 0
    /\ first = Empty

\* the loop of get_team_records takes the next fetched row
FetchRow ==
    /\ pc \in {"idle", "fold"}
    /\ Len(rows) < MaxRows
    /\ \E row \in GameRows :
        /\ rows' = Append(rows, row)
        /\ records' = FoldRow(records, row)
    /\ pc' = "fold"
    /\ UNCHANGED <<wp_rec, wp_out, sos_in, win_pcts, sos>>
    /\ UNCHANGED srsVars
    /\ UNCHANGED oddsVars
    /\ UNCHANGED extVars

\* compute_win_pct on a record
CallWinPct ==
    /\ pc = "idle"
    /\ \E rec \in HandRecords :
        /\ wp_rec' = rec
        /\ wp_out' = compute_win_pct(rec)
    /\ pc' = "winpct"
    /\ UNCHANGED <<rows, records, sos_in, win_pcts, sos>>
    /\ UNCHANGED srsVars
    /\ UNCHANGED oddsVars
    /\ UNCHANGED extVars

\* compute_sos on the folded records, or on records zero-filled by hand
CallSos ==
    /\ pc \in {"idle", "fold"}
    /\ \E extra \in SUBSET (Teams \ DOMAIN records) :
        LET recs == ZeroFilled(records, extra)
        IN  /\ sos_in' = recs
            /\ win_pcts' = WinPcts(recs)
            /\ sos' = compute_sos(recs)
    /\ pc' = "sos"
    /\ UNCHANGED <<rows, records, wp_rec, wp_out>>
    /\ UNCHANGED srsVars
    /\ UNCHANGED oddsVars
    /\ UNCHANGED extVars

InitOddsIdle ==
    /\ home_stats = Empty
    /\ away_stats = Empty
    /\ odds = Empty
    /\ locals = Empty
    /\ ml_in = 0
    /\ ml_out = 0

InitBuildIdle ==
    /\ game = Empty
    /\ matchup = Empty

InitBackIdle ==
    /\ preds = <<>>
    /\ results = Empty
    /\ summary = Empty

InitHfaIdle ==
    /\ table = Empty
    /\ hfa = Empty
    /\ merged = Empty

InitTeamIdle ==
    /\ games = <<>>
    /\ team_code = ""
    /\ team_out = Empty
    /\ values = <<>>
    /\ consistency = 0
    /\ changepoint = Empty

\* nothing has run yet after the ratings and the odds
InitExtIdle == InitBuildIdle /\ InitBackIdle /\ InitHfaIdle /\ InitTeamIdle

Init == InitRating /\ InitSrsIdle /\ InitOddsIdle /\ InitExtIdle

Next == FetchRow \/ CallWinPct \/ CallSos

Spec == Init /\ [][Next]_vars

----------------------------------------------------------------------------
(* compute_srs *)

\* iterations: int = 20
ITERATIONS == 20

\* the points scored per game, the points allowed forgotten
TeamPpdScored(rec) ==
    IF GamesPlayed(rec) > 0 THEN Rat(rec.pf, GamesPlayed(rec))
    ELSE RatInt(0)

\* (pf - pa) / games, or 0 for a record without games
TeamPpd(rec) ==
    IF GamesPlayed(rec) > 0 THEN Rat(rec.pf - rec.pa, GamesPlayed(rec))
    ELSE RatInt(0)

Ppd(recs) == [t \in DOMAIN recs |-> TeamPpd(recs[t])]

\* every rating started at 0
InitialSrsZero(ppd_) == [t \in DOMAIN ppd_ |-> RatInt(0)]

\* the ratings a previous run left behind taken as the start
InitialSrsWarm(ppd_) == IF DOMAIN srs = DOMAIN ppd_ THEN srs ELSE ppd_

\* srs = ppd.copy()
InitialSrs(ppd_) == ppd_

\* srs.get(opp, 0)
OppSrs(ratings, opp) ==
    IF opp \in DOMAIN ratings THEN ratings[opp] ELSE RatInt(0)

\* the body of `for team in teams`: the team's value in new_srs
TeamSrs(recs, ppd_, old, team) ==
    LET opps == recs[team].opponents
    IN  IF opps = <<>> THEN ppd_[team]
        ELSE RatAdd(ppd_[team],
                    RatDivInt(RatSum([i \in 1 .. Len(opps) |-> OppSrs(old, opps[i])]),
                              Len(opps)))

\* the loop with srs itself updated as it goes
RECURSIVE SrsLoopInPlace(_, _, _, _, _)
SrsLoopInPlace(recs, ppd_, order, old, new) ==
    IF order = <<>> THEN new
    ELSE LET team == Head(order)
             value == TeamSrs(recs, ppd_, old, team)
         IN  SrsLoopInPlace(recs, ppd_, Tail(order),
                            (team :> value) @@ old, (team :> value) @@ new)

\* one round: `for team in teams` filling new_srs from srs, teams taken in `order`
RECURSIVE SrsLoop(_, _, _, _, _)
SrsLoop(recs, ppd_, order, old, new) ==
    IF order = <<>> THEN new
    ELSE LET team == Head(order)
             value == TeamSrs(recs, ppd_, old, team)
         IN  SrsLoop(recs, ppd_, Tail(order), old, (team :> value) @@ new)

\* the orders in which the teams of a round can be taken
Orders(ts) ==
    {o \in [1 .. Cardinality(ts) -> ts] : \A i, j \in DOMAIN o : i # j => o[i] # o[j]}

----------------------------------------------------------------------------
(* The season's rating run: get_team_records, compute_sos, compute_srs, and the
   same run again on the unchanged table. *)

\* final scores of a game: home win, tie, away win by three
ScoreLines == {<<1, 0>>, <<1, 1>>, <<0, 3>>}

SeasonRows ==
    {[home |-> f[1], away |-> f[2], home_score |-> sl[1], away_score |-> sl[2]] :
        f \in Fixtures, sl \in ScoreLines}

RECURSIVE SeqsUpTo(_, _)
SeqsUpTo(S, n) ==
    IF n = 0 THEN {<<>>}
    ELSE LET shorter == SeqsUpTo(S, n - 1)
         IN  shorter \cup {Append(q, x) : q \in {r \in shorter : Len(r) = n - 1}, x \in S}

Seasons == SeqsUpTo(SeasonRows, MaxSeason)

\* records as a test builds them by hand: every team given `shift` more points
\* per game, the teams in extra zero-filled
HandBuilt(recs, shift, extra) ==
    LET shifted == [t \in DOMAIN recs |->
                       [recs[t] EXCEPT !.pf = @ + shift * GamesPlayed(recs[t])]]
    IN  ZeroFilled(shifted, extra)

\* what main() keeps of a run
Ratings == [win_pct |-> win_pcts, sos |-> sos, srs |-> srs]

InitSrs ==
    /\ pc = "start"
    /\ season \in Seasons
    /\ run = 1
    /\ hand = NoHand
    /\ rows = <<>>
    /\ records = Empty
    /\ wp_rec = NewRecord
    /\ wp_out = Half
    /\ sos_in = Empty
    /\ win_pcts = Empty
    /\ sos = Empty
    /\ ppd = Empty
    /\ srs = Empty
    /\ round = 0
    /\ first = Empty
    /\ InitOddsIdle
    /\ InitExtIdle

\* get_team_records(conn, season)
Aggregate ==
    /\ pc = "start"
    /\ rows' = season
    /\ records' = GetTeamRecords(season)
    /\ pc' = "records"
    /\ UNCHANGED <<wp_rec, wp_out, sos_in, win_pcts, sos>>
    /\ UNCHANGED srsVars
    /\ UNCHANGED oddsVars
    /\ UNCHANGED extVars

\* a test hands compute_sos and compute_srs records it built itself, the same
\* ones in its second run
HandBuild ==
    /\ pc = "records"
    /\ \E shift \in 0 .. MaxShift :
       \E extra \in {{}, Teams \ DOMAIN records} :
        /\ <<shift, extra>> # NoHand
        /\ run = 2 => <<shift, extra>> = hand
        /\ records' = HandBuilt(records, shift, extra)
        /\ hand' = <<shift, extra>>
    /\ pc' = "built"
    /\ UNCHANGED <<rows, wp_rec, wp_out, sos_in, win_pcts, sos>>
    /\ UNCHANGED <<season, run, ppd, srs, round, first>>
    /\ UNCHANGED oddsVars
    /\ UNCHANGED extVars

\* sos = compute_sos(records); main() returns before it when there are no records
RunSos ==
    /\ \/ pc = "built"
       \/ pc = "records" /\ (run = 1 \/ hand = NoHand)
    /\ records # Empty
    /\ sos_in' = records
    /\ win_pcts' = WinPcts(records)
    /\ sos' = compute_sos(records)
    /\ pc' = "sos"
    /\ UNCHANGED <<rows, records, wp_rec, wp_out>>
    /\ UNCHANGED srsVars
    /\ UNCHANGED oddsVars
    /\ UNCHANGED extVars

\* compute_srs up to its loop: ppd, srs = ppd.copy()
SrsStart ==
    /\ pc = "sos"
    /\ ppd' = Ppd(records)
    /\ srs' = InitialSrs(Ppd(records))
    /\ round' = 0
    /\ pc' = "srs"
    /\ UNCHANGED <<rows, records, wp_rec, wp_out, sos_in, win_pcts, sos>>
    /\ UNCHANGED <<season, run, hand, first>>
    /\ UNCHANGED oddsVars
    /\ UNCHANGED extVars

\* one pass of `for _ in range(iterations)`, ending with srs = new_srs
SrsRound ==
    /\ pc = "srs"
    /\ round < ITERATIONS
    /\ \E order \in Orders(DOMAIN records) :
        srs' = SrsLoop(records, ppd, order, srs, Empty)
    /\ round' = round + 1
    /\ UNCHANGED ratingVars
    /\ UNCHANGED <<season, run, hand, ppd, first>>
    /\ UNCHANGED oddsVars
    /\ UNCHANGED extVars

\* return srs
SrsReturn ==
    /\ pc = "srs"
    /\ round = ITERATIONS
    /\ pc' = "done"
    /\ first' = IF run = 1 THEN Ratings ELSE first
    /\ UNCHANGED <<rows, records, wp_rec, wp_out, sos_in, win_pcts, sos>>
    /\ UNCHANGED <<season, run, hand, ppd, srs, round>>
    /\ UNCHANGED oddsVars
    /\ UNCHANGED extVars

\* the program is run again on the unchanged table
Rerun ==
    /\ pc = "done"
    /\ run = 1
    /\ run' = 2
    /\ pc' = "start"
    /\ UNCHANGED <<rows, records, wp_rec, wp_out, sos_in, win_pcts, sos>>
    /\ UNCHANGED <<season, hand, ppd, srs, round, first>>
    /\ UNCHANGED oddsVars
    /\ UNCHANGED extVars

NextSrs == Aggregate \/ HandBuild \/ RunSos \/ SrsStart \/ SrsRound \/ SrsReturn \/ Rerun

SpecSrs == InitSrs /\ [][NextSrs]_vars

----------------------------------------------------------------------------
(* What the fetched rows say, counted row by row. *)

RECURSIVE SumSeq(_)
SumSeq(s) == IF s = <<>> THEN 0 ELSE Head(s) + SumSeq(Tail(s))

Scored(row) == row.home_score # NULL /\ row.away_score # NULL

Plays(row, t) == Scored(row) /\ (row.home = t \/ row.away = t)

Own(row, t) == IF row.home = t THEN row.home_score ELSE row.away_score

Other(row, t) == IF row.home = t THEN row.away_score ELSE row.home_score

Rival(row, t) == IF row.home = t THEN row.away ELSE row.home

Bit(b) == IF b THEN 1 ELSE 0

RowWins(t) ==
    SumSeq([i \in 1 .. Len(rows) |->
        Bit(Plays(rows[i], t) /\ Own(rows[i], t) > Other(rows[i], t))])

RowLosses(t) ==
    SumSeq([i \in 1 .. Len(rows) |->
        Bit(Plays(rows[i], t) /\ Own(rows[i], t) < Other(rows[i], t))])

RowTies(t) ==
    SumSeq([i \in 1 .. Len(rows) |->
        Bit(Plays(rows[i], t) /\ Own(rows[i], t) = Other(rows[i], t))])

RowPointsFor(t) ==
    SumSeq([i \in 1 .. Len(rows) |->
        IF Plays(rows[i], t) THEN Own(rows[i], t) ELSE 0])

RowPointsAgainst(t) ==
    SumSeq([i \in 1 .. Len(rows) |->
        IF Plays(rows[i], t) THEN Other(rows[i], t) ELSE 0])

RECURSIVE RowRivals(_, _)
RowRivals(rs, t) ==
    IF rs = <<>> THEN <<>>
    ELSE IF Plays(Head(rs), t)
         THEN <<Rival(Head(rs), t)>> \o RowRivals(Tail(rs), t)
         ELSE RowRivals(Tail(rs), t)

----------------------------------------------------------------------------
(* C1: after get_team_records has folded any sequence of rows, a team has a
   record exactly when some row with both scores names it; its points
   for/against, wins, losses and ties (a tie only for equal scores) are those
   of its scored rows, each counted once, its opponent list holds one entry
   per scored row in row order, and wins + losses + ties = length of the
   opponent list >= 1. *)
C1_FoldCreditsEachGameOnce ==
    \A t \in Teams :
        IF RowRivals(rows, t) = <<>> THEN t \notin DOMAIN records
        ELSE /\ t \in DOMAIN records
             /\ records[t].wins = RowWins(t)
             /\ records[t].losses = RowLosses(t)
             /\ records[t].ties = RowTies(t)
             /\ records[t].pf = RowPointsFor(t)
             /\ records[t].pa = RowPointsAgainst(t)
             /\ records[t].opponents = RowRivals(rows, t)
             /\ GamesPlayed(records[t]) = Len(records[t].opponents)
             /\ Len(records[t].opponents) >= 1

\* a tied game and a row without a score have been folded: one team is named
\* by a row and still has no record
C1_Witness ==
    /\ Len(rows) = MaxRows
    /\ \E t \in DOMAIN records : records[t].ties >= 1
    /\ \E i \in 1 .. Len(rows) :
        /\ ~Scored(rows[i])
        /\ rows[i].home \notin DOMAIN records

----------------------------------------------------------------------------
(* C2: compute_win_pct returns (wins + 0.5 * ties) / (wins + losses + ties)
   for a record with at least one game, a value in [0, 1] (0.5 for one win,
   one tie, one loss), and 0.5 for a record with no game. *)
WinPctOf(rec, wp) ==
    /\ wp[2] > 0
    /\ RatLe(RatInt(0), wp) /\ RatLe(wp, RatInt(1))
    /\ IF GamesPlayed(rec) = 0 THEN wp = <<1, 2>>
       ELSE wp[1] * 2 * GamesPlayed(rec) = (2 * rec.wins + rec.ties) * wp[2]
    /\ (rec.wins = 1 /\ rec.ties = 1 /\ rec.losses = 1) => wp = <<1, 2>>

C2_WinPct ==
    /\ pc = "winpct" => WinPctOf(wp_rec, wp_out)
    /\ pc = "sos" => \A t \in DOMAIN sos_in : WinPctOf(sos_in[t], win_pcts[t])

\* compute_win_pct has answered for a one-win, one-tie, one-loss record
C2_Witness ==
    /\ pc = "winpct"
    /\ wp_rec.wins = 1 /\ wp_rec.ties = 1 /\ wp_rec.losses = 1

----------------------------------------------------------------------------
(* C3: compute_sos gives each team the mean of win_pct over its opponent
   list, one term per list entry (a team listed twice counts twice), a value
   in [0, 1], and exactly 0.5 for an empty opponent list. *)
Occurrences(opps, u) == Cardinality({i \in 1 .. Len(opps) : opps[i] = u})

\* sum over the distinct opponents u of (times u is listed) * win_pct(u)
RECURSIVE WeightedWinPct(_, _, _)
WeightedWinPct(us, opps, wps) ==
    IF us = {} THEN RatInt(0)
    ELSE LET u == CHOOSE x \in us : TRUE
         IN  RatAdd(WeightedWinPct(us \ {u}, opps, wps),
                    RatMulInt(OppWinPct(wps, u), Occurrences(opps, u)))

C3_Sos ==
    pc = "sos" =>
        \A t \in DOMAIN sos_in :
            LET opps == sos_in[t].opponents
            IN  /\ t \in DOMAIN sos
                /\ RatLe(RatInt(0), sos[t]) /\ RatLe(sos[t], RatInt(1))
                /\ IF opps = <<>> THEN sos[t] = <<1, 2>>
                   ELSE RatMulInt(sos[t], Len(opps))
                            = WeightedWinPct(Teams, opps, win_pcts)

\* compute_sos has answered for a team that met one opponent twice and for a
\* team with no opponent
C3_Witness ==
    /\ pc = "sos"
    /\ \E t \in DOMAIN sos_in : \E u \in Teams :
        Occurrences(sos_in[t].opponents, u) = 2
    /\ \E t \in DOMAIN sos_in : sos_in[t].opponents = <<>>

----------------------------------------------------------------------------
(* C4: compute_srs starts every team at its PPD and runs exactly 20 rounds;
   a round gives every team PPD(team) + the mean of its opponents' values of
   the previous round only (its own PPD when it has no opponent), whatever
   the order in which the teams are taken, so the ratings returned do not
   depend on that order. *)
RatNeg(x) == <<-x[1], x[2]>>

\* sum over the distinct opponents u of (times u is listed) * rating(u)
RECURSIVE WeightedSrs(_, _, _)
WeightedSrs(us, opps, ratings) ==
    IF us = {} THEN RatInt(0)
    ELSE LET u == CHOOSE x \in us : TRUE
         IN  RatAdd(WeightedSrs(us \ {u}, opps, ratings),
                    RatMulInt(OppSrs(ratings, u), Occurrences(opps, u)))

\* new is the synchronous update of old
SynchronousRound(old, new) ==
    /\ DOMAIN new = DOMAIN records
    /\ \A t \in DOMAIN records :
        LET opps == records[t].opponents
        IN  IF opps = <<>> THEN new[t] = ppd[t]
            ELSE RatMulInt(RatAdd(new[t], RatNeg(ppd[t])), Len(opps))
                     = WeightedSrs(Teams, opps, old)

C4_SrsSynchronousRounds ==
    /\ [][(pc = "sos" /\ pc' = "srs") =>
            (round' = 0 /\ srs' = ppd' /\
             \A t \in DOMAIN records :
                 /\ GamesPlayed(records[t]) > 0 =>
                        ppd'[t][1] * GamesPlayed(records[t])
                            = (records[t].pf - records[t].pa) * ppd'[t][2]
                 /\ GamesPlayed(records[t]) = 0 => ppd'[t] = <<0, 1>>)]_vars
    /\ [][(pc = "srs" /\ pc' = "srs") =>
            (round' = round + 1 /\ SynchronousRound(srs, srs'))]_vars
    /\ [][(pc = "srs" /\ pc' = "done") => (round = ITERATIONS /\ srs' = srs)]_vars
    /\ [](round <= ITERATIONS)

\* compute_srs has returned ratings for a team with two opponent entries whose
\* rating moved away from its PPD
C4_Witness ==
    /\ pc = "done"
    /\ round = ITERATIONS
    /\ \E t \in DOMAIN records :
        /\ Len(records[t].opponents) >= 2
        /\ srs[t] # ppd[t]
    /\ \E t, u \in DOMAIN records : srs[t] # srs[u]

----------------------------------------------------------------------------
(* C5: in a closed round-robin where every team has the same PPD, the SRS of
   every team after the 20 rounds is (20 + 1) x PPD: each round adds the PPD
   once more.  It is 2 x PPD only when the PPD is 0, which is the one value
   records folded from games allow. *)

\* every team lists every other team of the records, each equally often,
\* and no one else
ClosedRoundRobin(recs) ==
    /\ Cardinality(DOMAIN recs) >= 2
    /\ \E m \in 1 .. MaxSeason + 1 :
        \A t \in DOMAIN recs : \A u \in Teams :
            Occurrences(recs[t].opponents, u)
                = IF u \in DOMAIN recs /\ u # t THEN m ELSE 0

SamePpd(recs) == \A t, u \in DOMAIN recs : TeamPpd(recs[t]) = TeamPpd(recs[u])

C5_RoundRobinSrs ==
    (pc = "done" /\ ClosedRoundRobin(records) /\ SamePpd(records)) =>
        \A t \in DOMAIN records : srs[t] = RatMulInt(ppd[t], ITERATIONS + 1)

\* the claim as the specification states it: 2 x PPD
C5_Original ==
    (pc = "done" /\ ClosedRoundRobin(records) /\ SamePpd(records)) =>
        \A t \in DOMAIN records : srs[t] = RatMulInt(ppd[t], 2)

\* compute_srs has returned for a closed round-robin whose teams share a PPD
\* other than 0
C5_Witness ==
    /\ pc = "done"
    /\ ClosedRoundRobin(records)
    /\ SamePpd(records)
    /\ \E t \in DOMAIN records : ppd[t] # <<0, 1>>

----------------------------------------------------------------------------
(* C6: a second run of get_team_records, compute_sos and compute_srs on the
   unchanged table returns the win_pct, SOS and SRS of the first run for
   every team. *)
C6_RerunIdentical ==
    (pc = "done" /\ run = 2) => Ratings = first

\* the second run has returned ratings, some of them not 0, for a season of
\* MaxSeason games folded from the table
C6_Witness ==
    /\ pc = "done"
    /\ run = 2
    /\ hand = NoHand
    /\ Len(season) = MaxSeason
    /\ \E t \in DOMAIN srs : srs[t] # <<0, 1>>

----------------------------------------------------------------------------
(* build_odds.py.  Points are integers in hundredths of a point (team stats
   arrive rounded to one decimal, so in tens of hundredths); probabilities
   are integers in units of 1 / ProbScale. *)

ProbScale == 10 ^ 7

\* HOME_FIELD_ADVANTAGE = 2.5, in hundredths
HOME_FIELD_ADVANTAGE == 250

\* VIG_PERCENT = 0.0476 = 119 / 2500
VIG_PERCENT == <<119, 2500>>

\* the default 21.0 of team_stats.get(..., 21.0), in tenths
DEFAULT_PPG == 210

\* Python's round(n / d) for d > 0: to the nearest integer, an exact half to
\* the even neighbour
RoundHalfEven(n, d) ==
    LET q == n \div d
        r == n % d
    IN  IF 2 * r < d THEN q
        ELSE IF 2 * r > d THEN q + 1
        ELSE IF q % 2 = 0 THEN q ELSE q + 1

\* the favourite test written `>`: an even chance priced as an underdog
prob_to_american_odds_gt(prob) ==
    IF prob <= 0 THEN 10000
    ELSE IF prob >= ProbScale THEN -10000
    ELSE IF prob > ProbScale \div 2
         THEN RoundHalfEven(-100 * prob, ProbScale - prob)
         ELSE RoundHalfEven(100 * (ProbScale - prob), prob)

prob_to_american_odds(prob) ==
    IF prob <= 0 THEN 10000
    ELSE IF prob >= ProbScale THEN -10000
    ELSE IF prob >= ProbScale \div 2
         THEN RoundHalfEven(-100 * prob, ProbScale - prob)
         ELSE RoundHalfEven(100 * (ProbScale - prob), prob)

\* apply_vig without its cap
VigAdjustedNoCap(fair_prob) ==
    fair_prob + RoundHalfEven(fair_prob * VIG_PERCENT[1], VIG_PERCENT[2])

\* apply_vig: adjusted = min(fair_prob * (1 + vig), 0.99)
VigAdjusted(fair_prob) ==
    LET adjusted == fair_prob
                      + RoundHalfEven(fair_prob * VIG_PERCENT[1], VIG_PERCENT[2])
        cap == 99 * (ProbScale \div 100)
    IN  IF adjusted < cap THEN adjusted ELSE cap

\* the vig applied a second time to the adjusted probability
apply_vig_twice(fair_prob) ==
    prob_to_american_odds(VigAdjusted(VigAdjusted(fair_prob)))

apply_vig(fair_prob) == prob_to_american_odds(VigAdjusted(fair_prob))

\* team_stats.get(key, default), in tenths of a point
Get(stats, key, default) == IF key \in DOMAIN stats THEN stats[key] ELSE default

\* season and recent form blended half and half, in hundredths
calculate_power_rating_even(team_stats) ==
    IF team_stats = <<>> THEN 0
    ELSE LET ppg == Get(team_stats, "ppg_scored", DEFAULT_PPG)
             ppg_allowed == Get(team_stats, "ppg_allowed", DEFAULT_PPG)
             base == ppg - ppg_allowed
             recent_diff == Get(team_stats, "last_5_ppg", ppg)
                              - Get(team_stats, "last_5_ppg_allowed", ppg_allowed)
         IN  5 * base + 5 * recent_diff

\* 0.7 * base + 0.3 * recent_diff, in hundredths
calculate_power_rating(team_stats) ==
    IF team_stats = <<>> THEN 0
    ELSE LET ppg == Get(team_stats, "ppg_scored", DEFAULT_PPG)
             ppg_allowed == Get(team_stats, "ppg_allowed", DEFAULT_PPG)
             base == ppg - ppg_allowed
             recent_diff == Get(team_stats, "last_5_ppg", ppg)
                              - Get(team_stats, "last_5_ppg_allowed", ppg_allowed)
         IN  7 * base + 3 * recent_diff

\* 1 / (1 + math.exp(-LOGISTIC_K * d)) with LOGISTIC_K = 0.145, for
\* d = -30.00, -29.95, ..., 30.00, rounded to 1 / ProbScale
LogisticTable == <<
    127423, 128339, 129261, 130189, 131124, 132065, 133013, 133968,
    134930, 135898, 136874, 137856, 138845, 139841, 140844, 141855,
    142872, 143897, 144929, 145968, 147014, 148068, 149130, 150198,
    151275, 152359, 153450, 154550, 155657, 156771, 157894, 159025,
    160163, 161310, 162465, 163627, 164798, 165978, 167165, 168361,
    169565, 170778, 171999, 173229, 174468, 175715, 176971, 178236,
    179509, 180792, 182083, 183384, 184694, 186013, 187341, 188678,
    190025, 191381, 192747, 194122, 195507, 196902, 198306, 199720,
    201144, 202578, 204022, 205476, 206940, 208414, 209899, 211394,
    212900, 214415, 215942, 217479, 219027, 220585, 222155, 223735,
    225326, 226929, 228542, 230167, 231803, 233450, 235109, 236779,
    238461, 240154, 241860, 243577, 245305, 247046, 248799, 250564,
    252341, 254131, 255933, 257747, 259574, 261413, 263265, 265130,
    267007, 268898, 270802, 272718, 274648, 276591, 278548, 280518,
    282501, 284499, 286509, 288534, 290572, 292625, 294691, 296772,
    298867, 300976, 303100, 305238, 307391, 309558, 311740, 313937,
    316149, 318377, 320619, 322877, 325149, 327438, 329742, 332062,
    334397, 336748, 339115, 341499, 343898, 346314, 348746, 351194,
    353659, 356141, 358639, 361155, 363687, 366236, 368803, 371387,
    373988, 376607, 379243, 381898, 384569, 387259, 389967, 392693,
    395438, 398201, 400982, 403782, 406600, 409438, 412294, 415170,
    418064, 420978, 423911, 426864, 429837, 432829, 435841, 438873,
    441926, 444998, 448091, 451204, 454338, 457493, 460668, 463865,
    467083, 470321, 473582, 476863, 480166, 483491, 486838, 490207,
    493598, 497011, 500446, 503904, 507385, 510888, 514414, 517963,
    521536, 525131, 528750, 532393, 536059, 539749, 543463, 547201,
    550963, 554750, 558561, 562397, 566257, 570142, 574053, 577988,
    581949, 585936, 589948, 593985, 598049, 602138, 606254, 610396,
    614565, 618760, 622982, 627230, 631506, 635809, 640139, 644497,
    648882, 653295, 657736, 662205, 666702, 671228, 675782, 680365,
    684976, 689616, 694286, 698985, 703713, 708471, 713258, 718075,
    722922, 727800, 732707, 737646, 742614, 747614, 752644, 757706,
    762799, 767923, 773079, 778266, 783485, 788737, 794020, 799336,
    804684, 810065, 815478, 820925, 826405, 831918, 837464, 843044,
    848658, 854305, 859987, 865703, 871453, 877238, 883057, 888911,
    894801, 900725, 906685, 912680, 918711, 924778, 930880, 937019,
    943194, 949405, 955653, 961938, 968260, 974618, 981014, 987448,
    993919, 1000427, 1006974, 1013558, 1020181, 1026842, 1033541, 1040279,
    1047056, 1053872, 1060727, 1067621, 1074555, 1081528, 1088541, 1095594,
    1102686, 1109819, 1116993, 1124207, 1131461, 1138757, 1146093, 1153471,
    1160889, 1168349, 1175851, 1183394, 1190980, 1198607, 1206276, 1213988,
    1221742, 1229539, 1237379, 1245261, 1253186, 1261155, 1269167, 1277222,
    1285321, 1293464, 1301651, 1309881, 1318156, 1326475, 1334839, 1343247,
    1351700, 1360197, 1368740, 1377328, 1385960, 1394639, 1403362, 1412132,
    1420947, 1429808, 1438715, 1447668, 1456667, 1465713, 1474805, 1483944,
    1493129, 1502362, 1511641, 1520967, 1530341, 1539761, 1549229, 1558745,
    1568308, 1577919, 1587578, 1597284, 1607039, 1616842, 1626693, 1636592,
    1646540, 1656536, 1666580, 1676674, 1686816, 1697007, 1707247, 1717536,
    1727874, 1738261, 1748697, 1759183, 1769718, 1780303, 1790937, 1801620,
    1812354, 1823137, 1833970, 1844852, 1855785, 1866768, 1877800, 1888883,
    1900016, 1911199, 1922432, 1933715, 1945049, 1956433, 1967867, 1979352,
    1990887, 2002472, 2014108, 2025795, 2037532, 2049319, 2061157, 2073046,
    2084985, 2096975, 2109015, 2121106, 2133247, 2145439, 2157682, 2169975,
    2182319, 2194713, 2207158, 2219653, 2232199, 2244795, 2257442, 2270139,
    2282886, 2295684, 2308532, 2321430, 2334378, 2347377, 2360426, 2373524,
    2386673, 2399871, 2413120, 2426418, 2439766, 2453164, 2466611, 2480107,
    2493653, 2507249, 2520893, 2534587, 2548330, 2562122, 2575962, 2589851,
    2603789, 2617776, 2631811, 2645894, 2660025, 2674204, 2688431, 2702706,
    2717029, 2731399, 2745816, 2760281, 2774792, 2789351, 2803956, 2818608,
    2833306, 2848051, 2862842, 2877678, 2892560, 2907488, 2922461, 2937480,
    2952543, 2967651, 2982804, 2998001, 3013242, 3028527, 3043856, 3059229,
    3074645, 3090104, 3105605, 3121150, 3136737, 3152366, 3168037, 3183749,
    3199503, 3215299, 3231135, 3247012, 3262929, 3278886, 3294884, 3310921,
    3326997, 3343112, 3359266, 3375458, 3391689, 3407958, 3424264, 3440607,
    3456988, 3473405, 3489859, 3506348, 3522873, 3539434, 3556030, 3572661,
    3589326, 3606025, 3622758, 3639525, 3656324, 3673157, 3690021, 3706918,
    3723847, 3740807, 3757798, 3774819, 3791871, 3808953, 3826064, 3843204,
    3860373, 3877571, 3894797, 3912050, 3929330, 3946637, 3963971, 3981331,
    3998716, 4016127, 4033563, 4051023, 4068507, 4086014, 4103545, 4121099,
    4138675, 4156273, 4173893, 4191533, 4209195, 4226876, 4244578, 4262299,
    4280039, 4297797, 4315574, 4333368, 4351179, 4369007, 4386852, 4404712,
    4422588, 4440478, 4458383, 4476303, 4494236, 4512182, 4530140, 4548111,
    4566094, 4584088, 4602093, 4620109, 4638134, 4656169, 4674212, 4692264,
    4710325, 4728393, 4746468, 4764549, 4782637, 4800731, 4818829, 4836933,
    4855041, 4873152, 4891267, 4909385, 4927505, 4945627, 4963751, 4981875,
    5000000, 5018125, 5036249, 5054373, 5072495, 5090615, 5108733, 5126848,
    5144959, 5163067, 5181171, 5199269, 5217363, 5235451, 5253532, 5271607,
    5289675, 5307736, 5325788, 5343831, 5361866, 5379891, 5397907, 5415912,
    5433906, 5451889, 5469860, 5487818, 5505764, 5523697, 5541617, 5559522,
    5577412, 5595288, 5613148, 5630993, 5648821, 5666632, 5684426, 5702203,
    5719961, 5737701, 5755422, 5773124, 5790805, 5808467, 5826107, 5843727,
    5861325, 5878901, 5896455, 5913986, 5931493, 5948977, 5966437, 5983873,
    6001284, 6018669, 6036029, 6053363, 6070670, 6087950, 6105203, 6122429,
    6139627, 6156796, 6173936, 6191047, 6208129, 6225181, 6242202, 6259193,
    6276153, 6293082, 6309979, 6326843, 6343676, 6360475, 6377242, 6393975,
    6410674, 6427339, 6443970, 6460566, 6477127, 6493652, 6510141, 6526595,
    6543012, 6559393, 6575736, 6592042, 6608311, 6624542, 6640734, 6656888,
    6673003, 6689079, 6705116, 6721114, 6737071, 6752988, 6768865, 6784701,
    6800497, 6816251, 6831963, 6847634, 6863263, 6878850, 6894395, 6909896,
    6925355, 6940771, 6956144, 6971473, 6986758, 7001999, 7017196, 7032349,
    7047457, 7062520, 7077539, 7092512, 7107440, 7122322, 7137158, 7151949,
    7166694, 7181392, 7196044, 7210649, 7225208, 7239719, 7254184, 7268601,
    7282971, 7297294, 7311569, 7325796, 7339975, 7354106, 7368189, 7382224,
    7396211, 7410149, 7424038, 7437878, 7451670, 7465413, 7479107, 7492751,
    7506347, 7519893, 7533389, 7546836, 7560234, 7573582, 7586880, 7600129,
    7613327, 7626476, 7639574, 7652623, 7665622, 7678570, 7691468, 7704316,
    7717114, 7729861, 7742558, 7755205, 7767801, 7780347, 7792842, 7805287,
    7817681, 7830025, 7842318, 7854561, 7866753, 7878894, 7890985, 7903025,
    7915015, 7926954, 7938843, 7950681, 7962468, 7974205, 7985892, 7997528,
    8009113, 8020648, 8032133, 8043567, 8054951, 8066285, 8077568, 8088801,
    8099984, 8111117, 8122200, 8133232, 8144215, 8155148, 8166030, 8176863,
    8187646, 8198380, 8209063, 8219697, 8230282, 8240817, 8251303, 8261739,
    8272126, 8282464, 8292753, 8302993, 8313184, 8323326, 8333420, 8343464,
    8353460, 8363408, 8373307, 8383158, 8392961, 8402716, 8412422, 8422081,
    8431692, 8441255, 8450771, 8460239, 8469659, 8479033, 8488359, 8497638,
    8506871, 8516056, 8525195, 8534287, 8543333, 8552332, 8561285, 8570192,
    8579053, 8587868, 8596638, 8605361, 8614040, 8622672, 8631260, 8639803,
    8648300, 8656753, 8665161, 8673525, 8681844, 8690119, 8698349, 8706536,
    8714679, 8722778, 8730833, 8738845, 8746814, 8754739, 8762621, 8770461,
    8778258, 8786012, 8793724, 8801393, 8809020, 8816606, 8824149, 8831651,
    8839111, 8846529, 8853907, 8861243, 8868539, 8875793, 8883007, 8890181,
    8897314, 8904406, 8911459, 8918472, 8925445, 8932379, 8939273, 8946128,
    8952944, 8959721, 8966459, 8973158, 8979819, 8986442, 8993026, 8999573,
    9006081, 9012552, 9018986, 9025382, 9031740, 9038062, 9044347, 9050595,
    9056806, 9062981, 9069120, 9075222, 9081289, 9087320, 9093315, 9099275,
    9105199, 9111089, 9116943, 9122762, 9128547, 9134297, 9140013, 9145695,
    9151342, 9156956, 9162536, 9168082, 9173595, 9179075, 9184522, 9189935,
    9195316, 9200664, 9205980, 9211263, 9216515, 9221734, 9226921, 9232077,
    9237201, 9242294, 9247356, 9252386, 9257386, 9262354, 9267293, 9272200,
    9277078, 9281925, 9286742, 9291529, 9296287, 9301015, 9305714, 9310384,
    9315024, 9319635, 9324218, 9328772, 9333298, 9337795, 9342264, 9346705,
    9351118, 9355503, 9359861, 9364191, 9368494, 9372770, 9377018, 9381240,
    9385435, 9389604, 9393746, 9397862, 9401951, 9406015, 9410052, 9414064,
    9418051, 9422012, 9425947, 9429858, 9433743, 9437603, 9441439, 9445250,
    9449037, 9452799, 9456537, 9460251, 9463941, 9467607, 9471250, 9474869,
    9478464, 9482037, 9485586, 9489112, 9492615, 9496096, 9499554, 9502989,
    9506402, 9509793, 9513162, 9516509, 9519834, 9523137, 9526418, 9529679,
    9532917, 9536135, 9539332, 9542507, 9545662, 9548796, 9551909, 9555002,
    9558074, 9561127, 9564159, 9567171, 9570163, 9573136, 9576089, 9579022,
    9581936, 9584830, 9587706, 9590562, 9593400, 9596218, 9599018, 9601799,
    9604562, 9607307, 9610033, 9612741, 9615431, 9618102, 9620757, 9623393,
    9626012, 9628613, 9631197, 9633764, 9636313, 9638845, 9641361, 9643859,
    9646341, 9648806, 9651254, 9653686, 9656102, 9658501, 9660885, 9663252,
    9665603, 9667938, 9670258, 9672562, 9674851, 9677123, 9679381, 9681623,
    9683851, 9686063, 9688260, 9690442, 9692609, 9694762, 9696900, 9699024,
    9701133, 9703228, 9705309, 9707375, 9709428, 9711466, 9713491, 9715501,
    9717499, 9719482, 9721452, 9723409, 9725352, 9727282, 9729198, 9731102,
    9732993, 9734870, 9736735, 9738587, 9740426, 9742253, 9744067, 9745869,
    9747659, 9749436, 9751201, 9752954, 9754695, 9756423, 9758140, 9759846,
    9761539, 9763221, 9764891, 9766550, 9768197, 9769833, 9771458, 9773071,
    9774674, 9776265, 9777845, 9779415, 9780973, 9782521, 9784058, 9785585,
    9787100, 9788606, 9790101, 9791586, 9793060, 9794524, 9795978, 9797422,
    9798856, 9800280, 9801694, 9803098, 9804493, 9805878, 9807253, 9808619,
    9809975, 9811322, 9812659, 9813987, 9815306, 9816616, 9817917, 9819208,
    9820491, 9821764, 9823029, 9824285, 9825532, 9826771, 9828001, 9829222,
    9830435, 9831639, 9832835, 9834022, 9835202, 9836373, 9837535, 9838690,
    9839837, 9840975, 9842106, 9843229, 9844343, 9845450, 9846550, 9847641,
    9848725, 9849802, 9850870, 9851932, 9852986, 9854032, 9855071, 9856103,
    9857128, 9858145, 9859156, 9860159, 9861155, 9862144, 9863126, 9864102,
    9865070, 9866032, 9866987, 9867935, 9868876, 9869811, 9870739, 9871661,
    9872577
>>

\* home_win_prob for an expected differential in hundredths
Logistic(expected_diff) == LogisticTable[(expected_diff + 3000) \div 5 + 1]

\* a line rounded to one decimal instead of the half-point grid
HalfPointTenth(x) == RoundHalfEven(x, 10) * 10

\* an exact half of the doubled value rounded away from zero
HalfPointAway(x) ==
    LET q == (2 * x) \div 100
        r == (2 * x) % 100
    IN  (IF r < 50 THEN q ELSE IF r > 50 THEN q + 1
         ELSE IF x >= 0 THEN q + 1 ELSE q) * 50

\* round(x * 2) / 2, x and the result in hundredths
HalfPoint(x) == RoundHalfEven(2 * x, 100) * 50

\* the stats a team can come with: each key present or missing
StatValues ==
    [ppg_scored |-> {170, 240, 270}, ppg_allowed |-> {200, 230, 300},
     last_5_ppg |-> {250, 280}, last_5_ppg_allowed |-> {180, 220}]

StatKeys == DOMAIN StatValues

TeamStats ==
    UNION {{st \in [ks -> UNION {StatValues[k] : k \in ks}] :
                \A k \in ks : st[k] \in StatValues[k]} : ks \in SUBSET StatKeys}

\* stats that put expected_diff and the raw total a quarter of a point off
\* the half-point grid against a team of 24.0 / 23.0 / 25.0 / 22.0
QuarterPointStats ==
    {[ppg_scored |-> 205, ppg_allowed |-> 210,
      last_5_ppg |-> 200, last_5_ppg_allowed |-> 210],
     [ppg_scored |-> 220, ppg_allowed |-> 205,
      last_5_ppg |-> 200, last_5_ppg_allowed |-> 240],
     [ppg_scored |-> 195, ppg_allowed |-> 220,
      last_5_ppg |-> 220, last_5_ppg_allowed |-> 200],
     [ppg_scored |-> 190, ppg_allowed |-> 235,
      last_5_ppg |-> 250, last_5_ppg_allowed |-> 200]}

\* round() of a float whose exact value is n / d and which lies below it
\* (drift < 0), on it (drift = 0) or above it (drift > 0): only a float that
\* is exactly halfway is resolved to the even neighbour
RoundFloat(n, d, drift) ==
    IF 2 * (n % d) = d /\ drift # 0
    THEN (IF drift > 0 THEN n \div d + 1 ELSE n \div d)
    ELSE RoundHalfEven(n, d)

\* where the float expected_diff can lie relative to its exact value x in
\* hundredths, as far as a rounding of it can tell: the weights 0.7 and 0.3
\* are no binary fractions, so the sum of products may miss x on either side,
\* and only a multiple of a quarter point can be hit exactly
Drifts(x) ==
    IF x % 10 # 5 THEN {0}
    ELSE IF x % 25 = 0 THEN {-1, 0, 1} ELSE {-1, 1}

\* the intermediate values of calculate_matchup_odds
MatchupLocals(home, away, drift) ==
    LET home_power == calculate_power_rating(home)
        away_power == calculate_power_rating(away)
        expected_diff == (home_power - away_power) + HOME_FIELD_ADVANTAGE
        home_win_prob == Logistic(expected_diff)
    IN  [home_power |-> home_power, away_power |-> away_power,
         expected_diff |-> expected_diff, drift |-> drift,
         home_win_prob |-> home_win_prob,
         home_adjusted |-> VigAdjusted(home_win_prob),
         away_adjusted |-> VigAdjusted(ProbScale - home_win_prob)]

\* the dict calculate_matchup_odds returns: probabilities in thousandths,
\* lines in hundredths of a point, expected_diff in tenths; the points per
\* game are multiples of half a point, whose sums and halves are exact
calculate_matchup_odds(home, away, drift) ==
    LET l == MatchupLocals(home, away, drift)
        home_ppg == Get(home, "ppg_scored", DEFAULT_PPG)
        away_ppg == Get(away, "ppg_scored", DEFAULT_PPG)
        home_allowed == Get(home, "ppg_allowed", DEFAULT_PPG)
        away_allowed == Get(away, "ppg_allowed", DEFAULT_PPG)
        method1 == home_ppg + away_allowed
        method2 == away_ppg + home_allowed
    IN  [home_win_prob |-> RoundHalfEven(l.home_win_prob, ProbScale \div 1000),
         away_win_prob |-> RoundHalfEven(ProbScale - l.home_win_prob,
                                         ProbScale \div 1000),
         home_moneyline |-> apply_vig(l.home_win_prob),
         away_moneyline |-> apply_vig(ProbScale - l.home_win_prob),
         spread |-> IF drift = 0 THEN -HalfPoint(l.expected_diff)
                    ELSE -RoundFloat(2 * l.expected_diff, 100, drift) * 50,
         over_under |-> HalfPoint(5 * (method1 + method2)),
         home_team_total |-> HalfPoint(5 * method1 + 125),
         away_team_total |-> HalfPoint(5 * method2 - 125),
         expected_diff |-> RoundFloat(l.expected_diff, 10, drift)]

\* the probabilities prob_to_american_odds is tried on: below 0, 0, the
\* multiples of 1 / ProbSteps up to 1, above 1
ProbInputs == {k * (ProbScale \div ProbSteps) : k \in -1 .. ProbSteps + 1}
                 \cup {ProbScale \div 2, ProbScale}

InitOdds ==
    /\ InitRating
    /\ InitSrsIdle
    /\ InitOddsIdle
    /\ InitExtIdle

\* calculate_matchup_odds(home_stats, away_stats)
CalcMatchupOdds ==
    /\ pc = "idle"
    /\ \E home \in TeamStats \cup QuarterPointStats : \E away \in TeamStats :
        /\ home_stats' = home
        /\ away_stats' = away
        /\ \E drift \in Drifts(MatchupLocals(home, away, 0).expected_diff) :
            /\ locals' = MatchupLocals(home, away, drift)
            /\ odds' = calculate_matchup_odds(home, away, drift)
    /\ pc' = "odds"
    /\ UNCHANGED <<rows, records, wp_rec, wp_out, sos_in, win_pcts, sos>>
    /\ UNCHANGED srsVars
    /\ UNCHANGED <<ml_in, ml_out>>
    /\ UNCHANGED extVars

\* prob_to_american_odds(prob)
CallProbToOdds ==
    /\ pc = "idle"
    /\ \E prob \in ProbInputs :
        /\ ml_in' = prob
        /\ ml_out' = prob_to_american_odds(prob)
    /\ pc' = "ml"
    /\ UNCHANGED <<rows, records, wp_rec, wp_out, sos_in, win_pcts, sos>>
    /\ UNCHANGED srsVars
    /\ UNCHANGED <<home_stats, away_stats, odds, locals>>
    /\ UNCHANGED extVars

NextOdds == CalcMatchupOdds \/ CallProbToOdds

SpecOdds == InitOdds /\ [][NextOdds]_vars

----------------------------------------------------------------------------
(* C7: prob_to_american_odds maps p <= 0 to +10000 and p >= 1 to -10000,
   p in [0.5, 1) to round(-100 * p / (1 - p)) and p in (0, 0.5) to
   round(100 * (1 - p) / p); so 0.5 gives -100, 0 gives 10000, 1 gives
   -10000.  The moneylines of a matchup are these odds of the vig-adjusted
   probabilities. *)

\* r is n / d (d > 0) rounded to the nearest integer, an exact half to even
IsRounded(r, n, d) ==
    LET twice == 2 * (r * d - n)
    IN  /\ -d <= twice /\ twice <= d
        /\ (twice = d \/ twice = -d) => r % 2 = 0

OddsOf(prob, ml) ==
    /\ prob <= 0 => ml = 10000
    /\ prob >= ProbScale => ml = -10000
    /\ (prob < ProbScale /\ 2 * prob >= ProbScale) =>
           IsRounded(ml, -100 * prob, ProbScale - prob)
    /\ (prob > 0 /\ 2 * prob < ProbScale) =>
           IsRounded(ml, 100 * (ProbScale - prob), prob)
    /\ 2 * prob = ProbScale => ml = -100

C7_ProbToAmericanOdds ==
    /\ pc = "ml" => OddsOf(ml_in, ml_out)
    /\ pc = "odds" => /\ OddsOf(locals.home_adjusted, odds.home_moneyline)
                      /\ OddsOf(locals.away_adjusted, odds.away_moneyline)

\* prob_to_american_odds has priced an even chance
C7_Witness ==
    /\ pc = "ml"
    /\ 2 * ml_in = ProbScale
    /\ ml_out = -100

----------------------------------------------------------------------------
(* C8: the home_win_prob and away_win_prob calculate_matchup_odds stores lie
   in [0, 1] and sum to 1, and the probability each moneyline is priced from
   after vig never exceeds 0.99. *)
C8_ProbabilitiesSumToOne ==
    pc = "odds" =>
        /\ 0 <= odds.home_win_prob /\ odds.home_win_prob <= 1000
        /\ 0 <= odds.away_win_prob /\ odds.away_win_prob <= 1000
        /\ odds.home_win_prob + odds.away_win_prob = 1000
        /\ \A adjusted \in {locals.home_adjusted, locals.away_adjusted} :
            /\ 100 * adjusted <= 99 * ProbScale
            /\ adjusted > 0

\* a matchup whose home side is capped at 0.99 after vig
C8_Witness ==
    /\ pc = "odds"
    /\ 100 * locals.home_adjusted = 99 * ProbScale
    /\ odds.home_win_prob < 990
    /\ odds.away_win_prob > 0

----------------------------------------------------------------------------
(* C9: spread, over_under, home_team_total and away_team_total are exact
   multiples of 0.5, and the spread is <= 0 whenever expected_diff > 0 and
   >= 0 whenever expected_diff < 0. *)
C9_HalfPointGrid ==
    pc = "odds" =>
        /\ odds.spread % 50 = 0
        /\ odds.over_under % 50 = 0
        /\ odds.home_team_total % 50 = 0
        /\ odds.away_team_total % 50 = 0
        /\ locals.expected_diff > 0 => odds.spread <= 0
        /\ locals.expected_diff < 0 => odds.spread >= 0

\* a matchup with the home team favoured by a half-point spread and a
\* half-point total
C9_Witness ==
    /\ pc = "odds"
    /\ locals.expected_diff > 0
    /\ odds.spread < 0
    /\ odds.spread % 100 = 50
    /\ odds.over_under % 100 = 50

----------------------------------------------------------------------------
(* C10: home 27 scored / 20 allowed / last five 28 and 18 against away 24 /
   23 / 25 and 22 gives power ratings 7.9 and 1.6, expected_diff 8.8,
   home_win_prob 0.782, spread -9.0 and over_under 47.0. *)
ScenarioHome ==
    [ppg_scored |-> 270, ppg_allowed |-> 200,
     last_5_ppg |-> 280, last_5_ppg_allowed |-> 180]

ScenarioAway ==
    [ppg_scored |-> 240, ppg_allowed |-> 230,
     last_5_ppg |-> 250, last_5_ppg_allowed |-> 220]

C10_Scenario ==
    (pc = "odds" /\ home_stats = ScenarioHome /\ away_stats = ScenarioAway) =>
        /\ locals.home_power = 790
        /\ locals.away_power = 160
        /\ locals.expected_diff = 880
        /\ odds.expected_diff = 88
        /\ odds.home_win_prob = 782
        /\ odds.spread = -900
        /\ odds.over_under = 4700

\* calculate_matchup_odds has answered for the scenario's two teams
C10_Witness ==
    /\ pc = "odds"
    /\ home_stats = ScenarioHome
    /\ away_stats = ScenarioAway

----------------------------------------------------------------------------
(* build_odds main: one turn of the loop over target_games *)

\* final scores (home, away) of the games of games-{year}.json
GameScores == {<<24, 20>>, <<23, 20>>, <<20, 23>>, <<17, 17>>}

\* a game of games-{year}.json: completed with its scores, or still to be
\* played, without them
Games ==
    {[is_completed |-> TRUE, home_score |-> sc[1], away_score |-> sc[2],
      total_points |-> sc[1] + sc[2]] : sc \in GameScores}
        \cup {[is_completed |-> FALSE, home_score |-> NULL,
               away_score |-> NULL, total_points |-> NULL]}

\* a push also half a point either side of the line
SpreadResultBand(margin) ==
    IF Abs(margin) <= 50 THEN "push"
    ELSE IF margin > 0 THEN "cover" ELSE "miss"

\* matchup["spread_result"], margin in hundredths of a point
SpreadResult(margin) ==
    IF margin = 0 THEN "push"
    ELSE IF margin > 0 THEN "cover" ELSE "miss"

\* matchup["total_result"], both in hundredths of a point
TotalResult(total_points, over_under) ==
    IF total_points = over_under THEN "push"
    ELSE IF total_points > over_under THEN "over" ELSE "under"

\* the matchup dict of one game: the odds, and for a completed game the
\* actual result set against them
Matchup(g, o) ==
    IF g.is_completed THEN
        LET actual_diff == g.home_score - g.away_score
            margin == 100 * actual_diff + o.spread
        IN  [is_completed |-> TRUE,
             actual_home_score |-> g.home_score,
             actual_away_score |-> g.away_score,
             actual_total |-> g.total_points,
             actual_diff |-> actual_diff,
             spread_result |-> SpreadResult(margin),
             total_result |-> TotalResult(100 * g.total_points, o.over_under)]
            @@ o
    ELSE [is_completed |-> FALSE] @@ o

InitBuild ==
    /\ InitRating
    /\ InitSrsIdle
    /\ InitOddsIdle
    /\ InitExtIdle

\* the body of `for game in target_games`
BuildMatchup ==
    /\ pc = "idle"
    /\ \E g \in Games : \E home \in TeamStats : \E away \in TeamStats :
        /\ game' = g
        /\ home_stats' = home
        /\ away_stats' = away
        /\ \E drift \in Drifts(MatchupLocals(home, away, 0).expected_diff) :
            /\ locals' = MatchupLocals(home, away, drift)
            /\ odds' = calculate_matchup_odds(home, away, drift)
            /\ matchup' = Matchup(g, calculate_matchup_odds(home, away, drift))
    /\ pc' = "matchup"
    /\ UNCHANGED <<rows, records, wp_rec, wp_out, sos_in, win_pcts, sos>>
    /\ UNCHANGED srsVars
    /\ UNCHANGED <<ml_in, ml_out>>
    /\ UNCHANGED backVars
    /\ UNCHANGED hfaVars
    /\ UNCHANGED teamVars

\* matchup_odds.append(matchup), and on to the next game
AppendMatchup ==
    /\ pc = "matchup"
    /\ pc' = "idle"
    /\ game' = Empty
    /\ matchup' = Empty
    /\ home_stats' = Empty
    /\ away_stats' = Empty
    /\ locals' = Empty
    /\ odds' = Empty
    /\ UNCHANGED <<rows, records, wp_rec, wp_out, sos_in, win_pcts, sos>>
    /\ UNCHANGED srsVars
    /\ UNCHANGED <<ml_in, ml_out>>
    /\ UNCHANGED backVars
    /\ UNCHANGED hfaVars
    /\ UNCHANGED teamVars

NextBuild == BuildMatchup \/ AppendMatchup

SpecBuild == InitBuild /\ [][NextBuild]_vars

----------------------------------------------------------------------------
(* C11: for a completed game the matchup's margin is actual_diff + spread,
   spread_result is "push" exactly when |margin| < 0.5, otherwise "cover"
   for a positive and "miss" for a negative margin; actual_diff 3 against a
   spread of -3.0 is a push. *)
C11_SpreadResult ==
    (pc = "matchup" /\ game.is_completed) =>
        LET margin == 100 * (game.home_score - game.away_score) + odds.spread
        IN  /\ matchup.actual_diff = game.home_score - game.away_score
            /\ matchup.spread = odds.spread
            /\ matchup.spread_result = "push" <=> Abs(margin) < 50
            /\ (Abs(margin) >= 50 /\ margin > 0) =>
                   matchup.spread_result = "cover"
            /\ (Abs(margin) >= 50 /\ margin < 0) =>
                   matchup.spread_result = "miss"
            /\ (matchup.actual_diff = 3 /\ matchup.spread = -300) =>
                   matchup.spread_result = "push"

\* a home win by 3 against a spread of -3.0 has been stored as a push
C11_Witness ==
    /\ pc = "matchup"
    /\ game.is_completed
    /\ matchup.actual_diff = 3
    /\ matchup.spread = -300
    /\ matchup.spread_result = "push"

----------------------------------------------------------------------------
(* The doubles of the backtest's edge.  A double in [2^-5, 1] is a whole
   number of units of 2^-57, held as four limbs of 15 bits, the most
   significant first.  The difference of two of them is a whole number of
   units too; rounding it to a double is monotone and changes no value below
   2^-4, so it compares with 0 and with 0.05 as the exact difference does. *)

Limb == 2 ^ 15

\* the carries (or borrows) of each limb taken into the limb above it
Carry(x) ==
    LET l3 == x[3] + (x[4] \div Limb)
        l2 == x[2] + (l3 \div Limb)
    IN  <<x[1] + (l2 \div Limb), l2 % Limb, l3 % Limb, x[4] % Limb>>

\* the k with 2^-k <= n / d < 2^(1-k)
Binade(n, d) ==
    CHOOSE k \in 0 .. 5 : n * 2 ^ k >= d /\ (k = 0 \/ n * 2 ^ (k - 1) < d)

\* the double nearest to n / d, for 0 <= n <= d and n / d = 0 or >= 2^-5:
\* the quotient to 53 significant bits, an exact half to even
Double(n, d) ==
    IF n = 0 THEN <<0, 0, 0, 0>>
    ELSE LET k == Binade(n, d)
             top == n * 2 ^ (7 + k)
             q1 == top \div d
             r1 == top % d
             q2 == (r1 * Limb) \div d
             r2 == (r1 * Limb) % d
             q3 == (r2 * Limb) \div d
             r3 == (r2 * Limb) % d
             q4 == (r3 * Limb) \div d
             r4 == (r3 * Limb) % d
             up == IF 2 * r4 > d \/ (2 * r4 = d /\ q4 % 2 = 1) THEN 1 ELSE 0
             shift == 2 ^ (5 - k)
         IN  Carry(<<q1 * shift, q2 * shift, q3 * shift, (q4 + up) * shift>>)

\* x < y
DoubleLess(x, y) ==
    \E i \in 1 .. 4 : x[i] < y[i] /\ \A j \in 1 .. i - 1 : x[j] = y[j]

\* x - y for x >= y
DoubleSub(x, y) == Carry([i \in 1 .. 4 |-> x[i] - y[i]])

\* abs(x - y)
DoubleAbsDiff(x, y) == IF DoubleLess(x, y) THEN DoubleSub(y, x) ELSE DoubleSub(x, y)

----------------------------------------------------------------------------
(* backtest_model: analyze_predictions and compute_summary.  Probabilities
   are in thousandths, lines in hundredths of a point, scores in points,
   the moneyline profit an exact fraction of a dollar.  The labels of a bet
   (matchup, rounded edge), edge_sum and the summary's texts and top ten,
   which are read by nothing else, are left out. *)

MaxPreds == 2      \* predictions analysed in one run

\* the odds of a prediction as matchup-odds-{year}.json holds them; a key
\* may be missing
PredOdds ==
    {[home_win_prob |-> 650, home_moneyline |-> -150, away_moneyline |-> 130,
      spread |-> -400, over_under |-> 4400],
     [home_win_prob |-> 450, home_moneyline |-> 100, away_moneyline |-> -120,
      spread |-> 350, over_under |-> 4450],
     [home_win_prob |-> 650, home_moneyline |-> 100, away_moneyline |-> -120,
      spread |-> -350, over_under |-> 4350],
     [home_win_prob |-> 450, home_moneyline |-> -150, away_moneyline |-> 130,
      spread |-> 400, over_under |-> 4000],
     [home_win_prob |-> 500, home_moneyline |-> -150, away_moneyline |-> 130,
      spread |-> 0, over_under |-> 3400],
     [home_win_prob |-> 1000, home_moneyline |-> -150, away_moneyline |-> 130,
      spread |-> -450, over_under |-> 4400],
     <<>>}

Weeks == {1, 2}

\* final scores (home, away) of games_by_key
FinalScores == {<<24, 20>>, <<20, 24>>, <<17, 17>>}

\* games.get(key) found nothing
NoGame == <<>>

\* an element of odds together with the game games.get(key) finds for it
Predictions ==
    {[pred |-> [week |-> w, is_completed |-> TRUE] @@ o,
      game |-> [home_score |-> sc[1], away_score |-> sc[2]]] :
        w \in Weeks, o \in PredOdds, sc \in FinalScores}
    \cup {[pred |-> [week |-> 1, is_completed |-> FALSE, home_win_prob |-> 650,
                     home_moneyline |-> 100],
           game |-> [home_score |-> 24, away_score |-> 20]],
          [pred |-> [week |-> 1, is_completed |-> TRUE, home_win_prob |-> 650,
                     home_moneyline |-> 100],
           game |-> NoGame],
          [pred |-> [week |-> 2, home_win_prob |-> 650, home_moneyline |-> 100],
           game |-> [home_score |-> 24, away_score |-> 20]]}

\* the results dict before the loop
NewResults ==
    [total_games |-> 0,
     moneyline |-> [correct |-> 0, wrong |-> 0, push |-> 0],
     spread |-> [covered |-> 0, not_covered |-> 0, push |-> 0],
     total |-> [over |-> 0, under |-> 0, push |-> 0],
     calibration_buckets |-> <<>>,
     value_bets |-> [count |-> 0, wins |-> 0],
     roi |-> [flat_ml |-> RatInt(0), flat_spread |-> 0, flat_total |-> 0,
              units_wagered |-> 0],
     by_week |-> <<>>,
     edge_performance |-> <<>>]

\* `if not game or not pred.get("is_completed"): continue` does not fire
Evaluated(p) == p.game # NoGame /\ Get(p.pred, "is_completed", FALSE)

\* an even chance counted as a home pick
PredictedHomeWinGe(home_win_prob) == home_win_prob >= 500

\* predicted_home_win
PredictedHomeWin(home_win_prob) == home_win_prob > 500

\* the moneyline counter the game goes to
MoneylineResult(home_score, away_score, predicted_home_win) ==
    IF home_score = away_score THEN "push"
    ELSE IF predicted_home_win = (home_score > away_score) THEN "correct"
    ELSE "wrong"

\* a margin of half a point counted as a push too
SpreadOutcomeBand(home_margin_vs_spread) ==
    IF Abs(home_margin_vs_spread) <= 50 THEN "push"
    ELSE IF home_margin_vs_spread > 0 THEN "covered"
    ELSE "not_covered"

\* the spread counter the game goes to
SpreadOutcome(home_margin_vs_spread) ==
    IF Abs(home_margin_vs_spread) < 50 THEN "push"
    ELSE IF home_margin_vs_spread > 0 THEN "covered"
    ELSE "not_covered"

\* a total half a point off the line counted as a push too
TotalOutcomeBand(actual_total, ou_line) ==
    IF Abs(actual_total - ou_line) <= 50 THEN "push"
    ELSE IF actual_total > ou_line THEN "over"
    ELSE "under"

\* the over/under counter the game goes to
TotalOutcome(actual_total, ou_line) ==
    IF Abs(actual_total - ou_line) < 50 THEN "push"
    ELSE IF actual_total > ou_line THEN "over"
    ELSE "under"

\* int(home_win_prob * 10) * 10
Bucket(home_win_prob) == ((home_win_prob * 10) \div 1000) * 10

\* a bucket that counts the home wins only
CountInBucketWins(buckets, bucket, home_won) ==
    LET old == IF bucket \in DOMAIN buckets THEN buckets[bucket]
               ELSE [predicted |-> 0, actual_wins |-> 0]
        won == IF home_won THEN 1 ELSE 0
        new == [predicted |-> old.predicted + won,
                actual_wins |-> old.actual_wins + won]
    IN  (bucket :> new) @@ buckets

\* results["calibration_buckets"][bucket] after this game
CountInBucket(buckets, bucket, home_won) ==
    LET old == IF bucket \in DOMAIN buckets THEN buckets[bucket]
               ELSE [predicted |-> 0, actual_wins |-> 0]
        new == [predicted |-> old.predicted + 1,
                actual_wins |-> old.actual_wins + (IF home_won THEN 1 ELSE 0)]
    IN  (bucket :> new) @@ buckets

\* implied_prob, as a double
ImpliedProb(home_ml) ==
    IF home_ml < 0 THEN Double(Abs(home_ml), Abs(home_ml) + 100)
    ELSE Double(100, home_ml + 100)

\* the literal 0.05
EdgeThreshold == Double(5, 100)

\* abs(edge) > 0.05 for edge = home_win_prob - implied_prob
IsValueBet(home_win_prob, home_ml) ==
    DoubleLess(EdgeThreshold,
               DoubleAbsDiff(Double(home_win_prob, 1000), ImpliedProb(home_ml)))

\* bet_on_home = edge > 0
BetOnHome(home_win_prob, home_ml) ==
    DoubleLess(ImpliedProb(home_ml), Double(home_win_prob, 1000))

\* an away-side bet counted as won whenever the home team did not win
ValueBetWonTie(bet_on_home, home_score, away_score) ==
    \/ bet_on_home /\ home_score > away_score
    \/ ~bet_on_home /\ ~(home_score > away_score)

\* did the value bet win?
ValueBetWon(bet_on_home, home_score, away_score) ==
    \/ bet_on_home /\ home_score > away_score
    \/ ~bet_on_home /\ ~(home_score > away_score) /\ home_score # away_score

\* a negative line paid at its face value
PayoutFace(ml) == RatInt(Abs(ml))

\* what a won 100 bet pays at the line ml
Payout(ml) == IF ml < 0 THEN Rat(100 * 100, Abs(ml)) ELSE RatInt(ml)

\* the change of results["roi"]["flat_ml"] for one game
MoneylineProfit(pred, home_score, away_score) ==
    LET home_won == home_score > away_score
        home_ml == Get(pred, "home_moneyline", -110)
        away_ml == Get(pred, "away_moneyline", 110)
    IN  IF home_score = away_score THEN RatInt(0)
        ELSE IF PredictedHomeWin(Get(pred, "home_win_prob", 500)) THEN
            IF home_won THEN Payout(home_ml) ELSE RatInt(-100)
        ELSE
            IF ~home_won THEN Payout(away_ml) ELSE RatInt(-100)

\* results["by_week"][week] after this game
CountInWeek(by_week, week, ml_correct, spread_covered) ==
    LET old == IF week \in DOMAIN by_week THEN by_week[week]
               ELSE [games |-> 0, ml_correct |-> 0, spread_covered |-> 0]
        new == [games |-> old.games + 1,
                ml_correct |-> old.ml_correct + (IF ml_correct THEN 1 ELSE 0),
                spread_covered |->
                    old.spread_covered + (IF spread_covered THEN 1 ELSE 0)]
    IN  (week :> new) @@ by_week

\* one turn of `for pred in odds`
AnalyzePrediction(res, p) ==
    IF ~Evaluated(p) THEN res
    ELSE
        LET pred == p.pred
            home_score == p.game.home_score
            away_score == p.game.away_score
            actual_diff == home_score - away_score
            actual_total == home_score + away_score
            home_won == home_score > away_score
            home_win_prob == Get(pred, "home_win_prob", 500)
            predicted_home_win == PredictedHomeWin(home_win_prob)
            ml == MoneylineResult(home_score, away_score, predicted_home_win)
            home_margin_vs_spread == 100 * actual_diff + Get(pred, "spread", 0)
            sp == SpreadOutcome(home_margin_vs_spread)
            ou == TotalOutcome(100 * actual_total, Get(pred, "over_under", 4500))
            home_ml == Get(pred, "home_moneyline", -110)
            value == IsValueBet(home_win_prob, home_ml)
            bet_on_home == BetOnHome(home_win_prob, home_ml)
            won == ValueBetWon(bet_on_home, home_score, away_score)
            bet == [week |-> pred.week,
                    bet_side |-> IF bet_on_home THEN "home" ELSE "away",
                    won |-> won,
                    predicted_prob |-> home_win_prob,
                    actual_margin |-> actual_diff]
        IN  [total_games |-> res.total_games + 1,
             moneyline |-> [res.moneyline EXCEPT ![ml] = @ + 1],
             spread |-> [res.spread EXCEPT ![sp] = @ + 1],
             total |-> [res.total EXCEPT ![ou] = @ + 1],
             calibration_buckets |->
                 CountInBucket(res.calibration_buckets, Bucket(home_win_prob),
                               home_won),
             value_bets |->
                 IF value THEN
                     [count |-> res.value_bets.count + 1,
                      wins |-> res.value_bets.wins + (IF won THEN 1 ELSE 0)]
                 ELSE res.value_bets,
             roi |-> [res.roi EXCEPT
                         !.units_wagered = @ + 1,
                         !.flat_ml = RatAdd(@, MoneylineProfit(pred, home_score,
                                                               away_score))],
             by_week |->
                 CountInWeek(res.by_week, pred.week,
                             predicted_home_win = home_won
                                 /\ home_score # away_score,
                             home_margin_vs_spread > 0),
             edge_performance |->
                 IF value THEN Append(res.edge_performance, bet)
                 ELSE res.edge_performance]

\* round(n / d * 100, 1), in tenths of a percent
Percent(n, d) == RoundHalfEven(1000 * n, d)

\* one entry of the summary's calibration list
CalibrationEntry(bucket, data) ==
    [games |-> data.predicted,
     actual_win_rate |-> Percent(data.actual_wins, data.predicted),
     expected_rate |-> 10 * (bucket + 5),
     calibration_error |->
         RoundHalfEven(1000 * data.actual_wins
                           - 10 * (bucket + 5) * data.predicted,
                       data.predicted)]

\* summary["roi"]["moneyline_roi"], in tenths of a percent
MoneylineRoi(flat_ml, units_wagered) ==
    IF units_wagered > 0 THEN
        RoundHalfEven(10 * flat_ml[1], flat_ml[2] * units_wagered)
    ELSE 0

\* the summary dict, the calibration list as a function of the bucket
compute_summary(res) ==
    IF res.total_games = 0 THEN Empty
    ELSE
        LET ml == res.moneyline
            ml_decided == ml.correct + ml.wrong
            sp == res.spread
            spread_decided == sp.covered + sp.not_covered
            ou == res.total
            ou_decided == ou.over + ou.under
            buckets == res.calibration_buckets
            vb == res.value_bets
        IN  [total_games |-> res.total_games,
             moneyline_accuracy |->
                 IF ml_decided > 0 THEN Percent(ml.correct, ml_decided) ELSE 0,
             spread_accuracy |->
                 IF spread_decided > 0 THEN Percent(sp.covered, spread_decided)
                 ELSE 0,
             over_rate |->
                 IF ou_decided > 0 THEN Percent(ou.over, ou_decided) ELSE 0,
             under_rate |->
                 IF ou_decided > 0 THEN Percent(ou.under, ou_decided) ELSE 0,
             calibration |->
                 [b \in {c \in DOMAIN buckets : buckets[c].predicted > 0} |->
                     CalibrationEntry(b, buckets[b])],
             value_bets |->
                 [count |-> vb.count,
                  win_rate |->
                      IF vb.count > 0 THEN Percent(vb.wins, vb.count) ELSE 0],
             roi |->
                 [units_wagered |-> res.roi.units_wagered,
                  moneyline_profit |->
                      RoundHalfEven(100 * res.roi.flat_ml[1], res.roi.flat_ml[2]),
                  moneyline_roi |->
                      MoneylineRoi(res.roi.flat_ml, res.roi.units_wagered)],
             weekly_breakdown |-> res.by_week]

InitBack ==
    /\ InitRating
    /\ InitSrsIdle
    /\ InitOddsIdle
    /\ InitBuildIdle
    /\ InitHfaIdle
    /\ InitTeamIdle
    /\ preds = <<>>
    /\ results = NewResults
    /\ summary = Empty

\* the loop of analyze_predictions takes the next prediction
AnalyzeNext ==
    /\ pc \in {"idle", "analyze"}
    /\ Len(preds) < MaxPreds
    /\ \E p \in Predictions :
        /\ preds' = Append(preds, p)
        /\ results' = AnalyzePrediction(results, p)
    /\ pc' = "analyze"
    /\ UNCHANGED summary
    /\ UNCHANGED <<rows, records, wp_rec, wp_out, sos_in, win_pcts, sos>>
    /\ UNCHANGED srsVars
    /\ UNCHANGED oddsVars
    /\ UNCHANGED buildVars
    /\ UNCHANGED hfaVars
    /\ UNCHANGED teamVars

\* summary = compute_summary(results)
Summarise ==
    /\ pc \in {"idle", "analyze"}
    /\ summary' = compute_summary(results)
    /\ pc' = "summary"
    /\ UNCHANGED <<preds, results>>
    /\ UNCHANGED <<rows, records, wp_rec, wp_out, sos_in, win_pcts, sos>>
    /\ UNCHANGED srsVars
    /\ UNCHANGED oddsVars
    /\ UNCHANGED buildVars
    /\ UNCHANGED hfaVars
    /\ UNCHANGED teamVars

NextBack == AnalyzeNext \/ Summarise

SpecBack == InitBack /\ [][NextBack]_vars

----------------------------------------------------------------------------
(* What the predictions taken so far say, read off the list itself. *)

HomeWinProbOf(p) == Get(p.pred, "home_win_prob", 500)

HomeLineOf(p) == Get(p.pred, "home_moneyline", -110)

AwayLineOf(p) == Get(p.pred, "away_moneyline", 110)

Tied(p) == p.game.home_score = p.game.away_score

HomeWon(p) == p.game.home_score > p.game.away_score

AwayWon(p) == p.game.away_score > p.game.home_score

\* the numerator of the edge as a fraction over 1000 x (|ml| + 100), or over
\* 1000 x (ml + 100)
EdgeNumerator(p) ==
    LET ml == HomeLineOf(p)
    IN  IF ml < 0 THEN HomeWinProbOf(p) * (Abs(ml) + 100) - 1000 * Abs(ml)
        ELSE HomeWinProbOf(p) * (ml + 100) - 1000 * 100

\* |edge| > 0.05 in exact arithmetic
EdgeExceeds(p) == 20 * Abs(EdgeNumerator(p)) > 1000 * (Abs(HomeLineOf(p)) + 100)

\* how many of the predictions taken were evaluated and satisfy P
Evaluations(P(_)) ==
    Cardinality({i \in 1 .. Len(preds) : Evaluated(preds[i]) /\ P(preds[i])})

\* home_win_prob 0.65 against a home moneyline of -150, the home team
\* winning 24-20
IsBoundaryScenario(p) ==
    /\ Evaluated(p)
    /\ HomeWinProbOf(p) = 650
    /\ HomeLineOf(p) = -150
    /\ p.game = [home_score |-> 24, away_score |-> 20]

----------------------------------------------------------------------------
(* C12: analyze_predictions flags a value bet only when |edge| strictly
   exceeds 0.05, edge being home_win_prob less the probability the home
   moneyline implies; home_win_prob 0.65 against -150 has an edge of exactly
   0.05, so no value bet is recorded for it, while the 24-20 home win counts
   as moneyline correct. *)
C12_ValueBetBoundary ==
    [][preds' # preds =>
        LET p == preds'[Len(preds')]
            flagged == results'.value_bets.count # results.value_bets.count
        IN  /\ flagged => (Evaluated(p) /\ EdgeExceeds(p))
            /\ IsBoundaryScenario(p) =>
                /\ ~flagged
                /\ results'.moneyline.correct = results.moneyline.correct + 1
    ]_vars

----------------------------------------------------------------------------
(* C13: every recorded value bet is on the home side when its edge is
   positive and on the away side otherwise; a home-side bet is a win exactly
   when the home team won and an away-side bet exactly when the away team
   won, so a tied game is a win for neither; value_bets.wins never exceeds
   value_bets.count, and edge_performance has value_bets.count entries. *)

\* the indices of the predictions taken that were flagged as value bets
FlaggedIndices ==
    {i \in 1 .. Len(preds) :
        Evaluated(preds[i])
            /\ IsValueBet(HomeWinProbOf(preds[i]), HomeLineOf(preds[i]))}

\* the i-th flagged prediction
RECURSIVE NthFlagged(_, _)
NthFlagged(i, from) ==
    IF from \in FlaggedIndices
    THEN IF i = 1 THEN preds[from] ELSE NthFlagged(i - 1, from + 1)
    ELSE NthFlagged(i, from + 1)

C13_ValueBetSides ==
    pc \in {"analyze", "summary"} =>
        LET bets == results.edge_performance
            vb == results.value_bets
        IN  /\ Len(bets) = vb.count
            /\ Len(bets) = Cardinality(FlaggedIndices)
            /\ vb.wins <= vb.count
            /\ vb.wins = Cardinality({i \in 1 .. Len(bets) : bets[i].won})
            /\ \A i \in 1 .. Len(bets) :
                LET p == NthFlagged(i, 1)
                IN  /\ bets[i].bet_side = "home" <=> EdgeNumerator(p) > 0
                    /\ bets[i].bet_side = "away" <=> EdgeNumerator(p) <= 0
                    /\ bets[i].bet_side = "home" => (bets[i].won <=> HomeWon(p))
                    /\ bets[i].bet_side = "away" => (bets[i].won <=> AwayWon(p))
                    /\ Tied(p) => ~bets[i].won

\* an away-side value bet on a game that ended tied has been recorded as lost
C13_Witness ==
    /\ pc = "analyze"
    /\ results.value_bets.count = 1
    /\ results.value_bets.wins = 0
    /\ Len(results.edge_performance) = 1
    /\ results.edge_performance[1].bet_side = "away"
    /\ results.edge_performance[1].actual_margin = 0

----------------------------------------------------------------------------
(* C14: every evaluated matchup counts as a moneyline push when the final
   scores are equal, otherwise as correct exactly when the predicted
   favourite (home if home_win_prob > 0.5, away otherwise, also at 0.5) is
   the winner, and as wrong in every other case. *)

FavouriteWon(p) ==
    \/ HomeWinProbOf(p) > 500 /\ HomeWon(p)
    \/ HomeWinProbOf(p) <= 500 /\ AwayWon(p)

FavouriteLost(p) == ~Tied(p) /\ ~FavouriteWon(p)

C14_MoneylineResult ==
    pc \in {"analyze", "summary"} =>
        /\ results.moneyline.push = Evaluations(Tied)
        /\ results.moneyline.correct = Evaluations(FavouriteWon)
        /\ results.moneyline.wrong = Evaluations(FavouriteLost)

\* an even-chance prediction has been counted correct for an away win
C14_Witness ==
    /\ pc = "analyze"
    /\ Len(preds) = 1
    /\ Evaluated(preds[1])
    /\ HomeWinProbOf(preds[1]) = 500
    /\ AwayWon(preds[1])
    /\ results.moneyline.correct = 1

----------------------------------------------------------------------------
(* C15: for predictions with home_win_prob in [0, 1] every calibration
   bucket is one of the deciles 0, 10, ..., 90 and holds no more home wins
   than games; the summary gives each bucket the expected rate
   (bucket + 5) / 100 and the error actual rate - expected rate. *)
Deciles == {10 * d : d \in 0 .. 9}

C15_CalibrationDeciles ==
    (/\ pc \in {"analyze", "summary"}
     /\ \A i \in 1 .. Len(preds) :
            0 <= HomeWinProbOf(preds[i]) /\ HomeWinProbOf(preds[i]) <= 1000) =>
        /\ \A b \in DOMAIN results.calibration_buckets :
            /\ b \in Deciles
            /\ results.calibration_buckets[b].actual_wins
                   <= results.calibration_buckets[b].predicted
        /\ (pc = "summary" /\ summary # Empty) =>
               \A b \in DOMAIN summary.calibration :
                   LET e == summary.calibration[b]
                       data == results.calibration_buckets[b]
                   IN  /\ e.expected_rate = 10 * (b + 5)
                       /\ IsRounded(e.calibration_error,
                                    1000 * data.actual_wins
                                        - e.expected_rate * data.predicted,
                                    data.predicted)

----------------------------------------------------------------------------
(* C16: the ROI simulation wagers one unit per decided game only:
   roi.units_wagered is the number of evaluated games that did not end in a
   tie, and the summary's ROI% is the cumulative profit over units wagered
   x 100, x 100. *)
Decided(p) == ~Tied(p)

C16_UnitsWagered ==
    pc \in {"analyze", "summary"} =>
        /\ results.roi.units_wagered = Evaluations(Decided)
        /\ (pc = "summary" /\ summary # Empty /\ Evaluations(Decided) > 0) =>
               IsRounded(summary.roi.moneyline_roi,
                         10 * results.roi.flat_ml[1],
                         results.roi.flat_ml[2] * Evaluations(Decided))

----------------------------------------------------------------------------
(* C17: each evaluated game that did not end tied changes the cumulative
   moneyline profit by 100 x 100 / |line| when the favoured side (home if
   home_win_prob > 0.5, else away) won at a negative line, by the line when
   it won at a positive line, and by -100 when it lost; a tied game leaves
   the profit as it is. *)

\* the posted line of the side the model favours
FavouredLine(p) ==
    IF HomeWinProbOf(p) > 500 THEN HomeLineOf(p) ELSE AwayLineOf(p)

ProfitChange(p) ==
    IF ~Evaluated(p) \/ Tied(p) THEN RatInt(0)
    ELSE IF FavouriteWon(p) THEN
        IF FavouredLine(p) < 0 THEN Rat(10000, Abs(FavouredLine(p)))
        ELSE RatInt(FavouredLine(p))
    ELSE RatInt(-100)

C17_MoneylineProfit ==
    pc \in {"analyze", "summary"} =>
        results.roi.flat_ml =
            RatSum([i \in 1 .. Len(preds) |-> ProfitChange(preds[i])])

\* a won bet at -150 followed by a tied game: the profit is 66.67 after both
C17_Witness ==
    /\ pc = "analyze"
    /\ Len(preds) = 2
    /\ IsBoundaryScenario(preds[1])
    /\ Evaluated(preds[2])
    /\ Tied(preds[2])
    /\ results.roi.flat_ml = Rat(200, 3)

----------------------------------------------------------------------------
(* compute_home_field_advantage, and the "hfa" main merges into the output.
   The games table holds each kind of row a number of times. *)

\* min_games: int = 20
min_games == 20

\* hfa.get(team, 2.5), in hundredths of a point
DEFAULT_HFA == 250

MaxOver == 0       \* games of one kind beyond the min_games threshold

\* the kinds of rows of the games table, all seasons
HfaRows ==
    {[home |-> "A", away |-> "B", home_score |-> 27, away_score |-> 20,
      is_completed |-> 1],
     [home |-> "A", away |-> "C", home_score |-> 20, away_score |-> 23,
      is_completed |-> 1],
     [home |-> "B", away |-> "A", home_score |-> 24, away_score |-> 17,
      is_completed |-> 1],
     [home |-> "C", away |-> "A", home_score |-> 17, away_score |-> 20,
      is_completed |-> 1],
     [home |-> "A", away |-> "B", home_score |-> NULL, away_score |-> NULL,
      is_completed |-> 0],
     [home |-> "B", away |-> "A", home_score |-> NULL, away_score |-> NULL,
      is_completed |-> 1]}

\* how often the table can hold one kind of row
RowCounts == {0, 1} \cup (min_games - 1 .. min_games + MaxOver)

\* the sum of the values of a function
RECURSIVE Total(_)
Total(f) ==
    IF DOMAIN f = {} THEN 0
    ELSE LET x == CHOOSE y \in DOMAIN f : TRUE
         IN  f[x] + Total([y \in DOMAIN f \ {x} |-> f[y]])

\* WHERE is_completed = 1 AND home_score IS NOT NULL, the rows of one home team
HomeRowsOf(t, team) ==
    {r \in DOMAIN t : /\ t[r] > 0
                      /\ r.home = team
                      /\ r.is_completed = 1
                      /\ r.home_score # NULL}

\* WHERE is_completed = 1 AND away_score IS NOT NULL, the rows of one away team
AwayRowsOf(t, team) ==
    {r \in DOMAIN t : /\ t[r] > 0
                      /\ r.away = team
                      /\ r.is_completed = 1
                      /\ r.away_score # NULL}

\* SELECT home_team, AVG(home_score - away_score), COUNT(*) ... GROUP BY
\* home_team: team -> <<margin, games>>
HomeQuery(t) ==
    [team \in {r.home : r \in {q \in DOMAIN t : HomeRowsOf(t, q.home) # {}}} |->
        LET rs == HomeRowsOf(t, team)
            count == Total([r \in rs |-> t[r]])
        IN  [margin |->
                 Rat(Total([r \in rs |-> t[r] * (r.home_score - r.away_score)]),
                     count),
             games |-> count]]

\* SELECT away_team, AVG(away_score - home_score), COUNT(*) ... GROUP BY
\* away_team
AwayQuery(t) ==
    [team \in {r.away : r \in {q \in DOMAIN t : AwayRowsOf(t, q.away) # {}}} |->
        LET rs == AwayRowsOf(t, team)
            count == Total([r \in rs |-> t[r]])
        IN  [margin |->
                 Rat(Total([r \in rs |-> t[r] * (r.away_score - r.home_score)]),
                     count),
             games |-> count]]

\* the threshold taken as exclusive
EnoughGamesGt(n) == n > min_games

\* if games >= min_games
EnoughGames(n) == n >= min_games

\* home_margins, or away_margins, of a query's rows
Margins(query) ==
    [team \in {q \in DOMAIN query : EnoughGames(query[q].games)} |-> query[team]]

\* x - y
RatSub(x, y) == RatAdd(x, <<-y[1], y[2]>>)

compute_home_field_advantage(t) ==
    LET home_margins == Margins(HomeQuery(t))
        away_margins == Margins(AwayQuery(t))
    IN  [team \in DOMAIN home_margins \cap DOMAIN away_margins |->
            RatDivInt(RatSub(home_margins[team].margin,
                             away_margins[team].margin), 2)]

\* the tables compute_home_field_advantage can find
Tables == [HfaRows -> RowCounts]

\* the teams main has a record for: those with a completed game with scores
RecordTeams(t) ==
    {team \in Teams : \E r \in DOMAIN t :
        /\ t[r] > 0
        /\ team \in {r.home, r.away}
        /\ r.is_completed = 1
        /\ r.home_score # NULL
        /\ r.away_score # NULL}

\* round(x, 2) in hundredths: the nearest, and for a value exactly halfway
\* either neighbour, as its double falls
RoundedHundredths(x) ==
    IF (200 * x[1]) % x[2] = 0 /\ (100 * x[1]) % x[2] # 0
    THEN {(100 * x[1]) \div x[2], (100 * x[1]) \div x[2] + 1}
    ELSE {RoundHalfEven(100 * x[1], x[2])}

\* the values team_stats["hfa"] can take for a team
MergedHfa(h, team) ==
    IF team \in DOMAIN h THEN RoundedHundredths(h[team]) ELSE {DEFAULT_HFA}

InitHfa ==
    /\ InitRating
    /\ InitSrsIdle
    /\ InitOddsIdle
    /\ InitExtIdle

\* hfa = compute_home_field_advantage(conn); main has returned before it
\* when there are no records
ComputeHfa ==
    /\ pc = "idle"
    /\ \E t \in Tables :
        /\ RecordTeams(t) # {}
        /\ table' = t
        /\ hfa' = compute_home_field_advantage(t)
    /\ pc' = "hfa"
    /\ UNCHANGED merged
    /\ UNCHANGED <<rows, records, wp_rec, wp_out, sos_in, win_pcts, sos>>
    /\ UNCHANGED srsVars
    /\ UNCHANGED oddsVars
    /\ UNCHANGED buildVars
    /\ UNCHANGED backVars
    /\ UNCHANGED teamVars

\* the loop `for team, rec in records.items()`: "hfa" of every team_stats
MergeStats ==
    /\ pc = "hfa"
    /\ \E m \in [RecordTeams(table) ->
                    UNION {MergedHfa(hfa, team) : team \in RecordTeams(table)}] :
        /\ \A team \in RecordTeams(table) : m[team] \in MergedHfa(hfa, team)
        /\ merged' = m
    /\ pc' = "merged"
    /\ UNCHANGED <<table, hfa>>
    /\ UNCHANGED <<rows, records, wp_rec, wp_out, sos_in, win_pcts, sos>>
    /\ UNCHANGED srsVars
    /\ UNCHANGED oddsVars
    /\ UNCHANGED buildVars
    /\ UNCHANGED backVars
    /\ UNCHANGED teamVars

NextHfa == ComputeHfa \/ MergeStats

SpecHfa == InitHfa /\ [][NextHfa]_vars

----------------------------------------------------------------------------
(* C18: compute_home_field_advantage returns (average home margin - average
   away margin) / 2 for exactly the teams with at least 20 completed home
   games and at least 20 completed away games; a team below the threshold
   on either side is absent and gets the default 2.5 in the merged output. *)

\* the completed games with scores a team played at home
HomeGames(team) ==
    Total([r \in {q \in HfaRows : q.home = team /\ q.is_completed = 1
                                      /\ q.home_score # NULL} |-> table[r]])

AwayGames(team) ==
    Total([r \in {q \in HfaRows : q.away = team /\ q.is_completed = 1
                                      /\ q.away_score # NULL} |-> table[r]])

\* the home margins of those games added up
HomeMarginSum(team) ==
    Total([r \in {q \in HfaRows : q.home = team /\ q.is_completed = 1
                                      /\ q.home_score # NULL} |->
              table[r] * (r.home_score - r.away_score)])

AwayMarginSum(team) ==
    Total([r \in {q \in HfaRows : q.away = team /\ q.is_completed = 1
                                      /\ q.away_score # NULL} |->
              table[r] * (r.away_score - r.home_score)])

C18_HomeFieldAdvantage ==
    pc \in {"hfa", "merged"} =>
        /\ \A team \in Teams :
               team \in DOMAIN hfa <=>
                   (HomeGames(team) >= 20 /\ AwayGames(team) >= 20)
        /\ \A team \in DOMAIN hfa :
               2 * hfa[team][1] * HomeGames(team) * AwayGames(team) =
                   hfa[team][2] * (HomeMarginSum(team) * AwayGames(team)
                                   - AwayMarginSum(team) * HomeGames(team))
        /\ pc = "merged" =>
               \A team \in DOMAIN merged :
                   team \notin DOMAIN hfa => merged[team] = 250

\* team A has exactly 20 games at home and 20 away and so has an HFA, team B
\* has 19 away games and gets the default
C18_Witness ==
    /\ pc = "merged"
    /\ HomeGames("A") = 20
    /\ AwayGames("A") = 20
    /\ "A" \in DOMAIN hfa
    /\ AwayGames("B") = 19
    /\ HomeGames("B") >= 20
    /\ "B" \notin DOMAIN hfa
    /\ merged["B"] = 250

----------------------------------------------------------------------------
(* compute_team_stats.py: compute_avg, compute_std, compute_consistency    *)
(* and compute_team_stats on the games list of games-{year}.json.          *)
(*                                                                         *)
(* A game dict is a function of its keys; a key fetch_games.py did not     *)
(* write is not in its domain.  Averages are integers in tenths, standard  *)
(* deviations in hundredths, consistency scores in tenths, win_pct in      *)
(* thousandths.  Of the stats dict the model keeps the counts, the point   *)
(* totals and averages, the first-quarter and first-half averages, the     *)
(* deviation and the consistency of the scoring series, the week-ordered   *)
(* series and the season trend; the splits, the recent form and the moving *)
(* averages are built from the same series and are left out.               *)

MaxGames == 2      \* games in the list passed to compute_team_stats
MaxValues == 3     \* values of a series passed to compute_consistency

\* dict union, the keys of f first
Merge(f, g) ==
    [k \in DOMAIN f \cup DOMAIN g |-> IF k \in DOMAIN f THEN f[k] ELSE g[k]]

\* the keys parse_game always writes
GameHead(f, completed) ==
    [home_team |-> f[1], away_team |-> f[2], week |-> 1,
     is_completed |-> completed]

\* the keys parse_game writes when it could read a score
ScoreFields(sc) ==
    [home_score |-> sc[1], away_score |-> sc[2],
     total_points |-> sc[1] + sc[2]]

\* the line score of a side: three even quarters and the rest in the fourth
LineScore(score) ==
    <<score \div 4, score \div 4, score \div 4, score - 3 * (score \div 4)>>

\* the quarter and half keys, written together with the score
QuarterFields(sc) ==
    LET h == LineScore(sc[1])
        a == LineScore(sc[2])
    IN  [home_q1 |-> h[1], home_q2 |-> h[2], home_q3 |-> h[3],
         home_q4 |-> h[4], home_ot |-> 0,
         away_q1 |-> a[1], away_q2 |-> a[2], away_q3 |-> a[3],
         away_q4 |-> a[4], away_ot |-> 0,
         home_1h |-> h[1] + h[2], home_2h |-> h[3] + h[4],
         away_1h |-> a[1] + a[2], away_2h |-> a[3] + a[4]]

FullGame(f, completed, sc) ==
    Merge(Merge(GameHead(f, completed), ScoreFields(sc)), QuarterFields(sc))

TeamFixtures == {<<"A", "B">>, <<"B", "A">>, <<"B", "C">>}

TeamScores == {<<24, 20>>, <<0, 17>>, <<17, 17>>}

\* what parse_game can return for a fixture: a completed game with its
\* scores, a game in progress, a completed game whose score could not be
\* read, and a game not yet played
GameDicts ==
    UNION {{FullGame(f, TRUE, sc) : sc \in TeamScores}
               \cup {FullGame(f, FALSE, <<24, 20>>),
                     GameHead(f, TRUE),
                     GameHead(f, FALSE)} : f \in TeamFixtures}

GameLists == SeqsUpTo(GameDicts, MaxGames)

\* round(sum(values) / len(values), 1) if values else 0.0, in tenths
compute_avg(vals) ==
    IF vals = <<>> THEN 0 ELSE RoundHalfEven(10 * SumSeq(vals), Len(vals))

RECURSIVE SqrtBetween(_, _, _)
\* the largest r of lo .. hi with r * r <= x
SqrtBetween(x, lo, hi) ==
    IF lo = hi THEN lo
    ELSE LET mid == (lo + hi + 1) \div 2
         IN  IF mid * mid <= x THEN SqrtBetween(x, mid, hi)
             ELSE SqrtBetween(x, lo, mid - 1)

\* floor(math.sqrt(x)) for 0 <= x < 2^31
ISqrt(x) == SqrtBetween(x, 0, 46340)

SumSquares(vals) == SumSeq([i \in 1 .. Len(vals) |-> vals[i] * vals[i]])

\* compute_std, in hundredths.  With n values of sum s and sum of squares q
\* the variance is (n*q - s*s) / n^2, so 200 * sqrt(variance) is
\* sqrt(40000 * (n*q - s*s)) / n; its floor plus one, halved, is the
\* deviation rounded to two places.
compute_std(vals) ==
    IF Len(vals) < 2 THEN 0
    ELSE LET n == Len(vals)
             spread == n * SumSquares(vals) - SumSeq(vals) * SumSeq(vals)
         IN  (ISqrt(40000 * spread) \div n + 1) \div 2

Min(a, b) == IF a <= b THEN a ELSE b

Max(a, b) == IF a >= b THEN a ELSE b

\* round(x, 1) of a float x that stands for n / d: to the nearest tenth; when
\* n / d is exactly half way the float lies on either side of it, and `up`
\* says on which
RoundEither(n, d, up) ==
    LET q == n \div d
        r == n % d
    IN  IF 2 * r < d THEN q
        ELSE IF 2 * r > d THEN q + 1
        ELSE IF up THEN q + 1 ELSE q

\* a series of mean zero answered like a steady one
compute_consistency_steady(vals, up) ==
    IF Len(vals) < 2 THEN 1000
    ELSE LET n == Len(vals)
             total == SumSeq(vals)
             sgn == IF total < 0 THEN -1 ELSE 1
         IN  IF total = 0 THEN 1000
             ELSE Max(0, Min(1000,
                     RoundEither(sgn * (1000 * total
                                         - 10 * compute_std(vals) * n),
                                 sgn * total, up)))

\* compute_consistency, in tenths: cv = std / avg is
\* std * n / (100 * total) with std in hundredths, and 100 * (1 - cv) is
\* (100 * total - std * n) / total
compute_consistency(vals, up) ==
    IF Len(vals) < 2 THEN 1000
    ELSE LET n == Len(vals)
             total == SumSeq(vals)
             sgn == IF total < 0 THEN -1 ELSE 1
         IN  IF total = 0 THEN 0
             ELSE Max(0, Min(1000,
                     RoundEither(sgn * (1000 * total
                                         - 10 * compute_std(vals) * n),
                                 sgn * total, up)))

\* the filter of the list comprehension
IsTeamGame(g, t) ==
    g.is_completed /\ (g.home_team = t \/ g.away_team = t)

TeamGamesOf(gs, t) == SelectSeq(gs, LAMBDA g : IsTeamGame(g, t))

\* the keys the loop over team_games reads with g[...]
ReadKeys ==
    {"home_score", "away_score",
     "home_q1", "home_q2", "home_q3", "home_q4",
     "away_q1", "away_q2", "away_q3", "away_q4",
     "home_1h", "home_2h", "away_1h", "away_2h", "week"}

\* `return None`
None == [outcome |-> "None"]

\* g["home_score"] on a dict without the key
KeyError == [outcome |-> "KeyError"]

\* the value of the team's side of a game, or of the other side
Side(g, t, home_key, away_key) ==
    IF g.home_team = t THEN g[home_key] ELSE g[away_key]

RECURSIVE InsertByWeek(_, _)
\* g put into the week-ordered s, behind the games of its week
InsertByWeek(s, g) ==
    IF s = <<>> THEN <<g>>
    ELSE IF s[Len(s)].week <= g.week THEN Append(s, g)
    ELSE Append(InsertByWeek(SubSeq(s, 1, Len(s) - 1), g), s[Len(s)])

RECURSIVE SortedByWeek(_)
\* sorted(team_games, key=lambda g: (g["week"], g["game_date"])) for games
\* of one date a week: a stable sort by week
SortedByWeek(gs) ==
    IF gs = <<>> THEN <<>>
    ELSE InsertByWeek(SortedByWeek(SubSeq(gs, 1, Len(gs) - 1)), gs[Len(gs)])

\* stats["season_trend"], in tenths: the mean of the later half of the
\* series less the mean of the earlier half, rounded to one place
SeasonTrend(ordered, up) ==
    LET n == Len(ordered)
        h == n \div 2
        first_sum == SumSeq(SubSeq(ordered, 1, h))
        second_sum == SumSeq(SubSeq(ordered, h + 1, n))
    IN  IF n >= 4
        THEN RoundEither(10 * (second_sum * h - first_sum * (n - h)),
                         h * (n - h), up)
        ELSE 0

\* the label given to a trend of exactly 2 taken for a rise
TrendDirectionGe(trend) ==
    IF trend >= 20 THEN "up" ELSE IF trend <= -20 THEN "down" ELSE "flat"

\* stats["season_trend_direction"], from the rounded trend
TrendDirection(trend) ==
    IF trend > 20 THEN "up" ELSE IF trend < -20 THEN "down" ELSE "flat"

\* up[1] and up[2] say where an exact tie of the consistency score and of the
\* trend is rounded to
compute_team_stats(gs, t, up) ==
    LET team_games == TeamGamesOf(gs, t)
        n == Len(team_games)
        sorted_games == SortedByWeek(team_games)
        game_scored_ordered ==
            [i \in 1 .. n |->
                Side(sorted_games[i], t, "home_score", "away_score")]
        season_trend == SeasonTrend(game_scored_ordered, up[2])
        points_scored ==
            [i \in 1 .. n |->
                Side(team_games[i], t, "home_score", "away_score")]
        points_allowed ==
            [i \in 1 .. n |->
                Side(team_games[i], t, "away_score", "home_score")]
        q1_scored ==
            [i \in 1 .. n |-> Side(team_games[i], t, "home_q1", "away_q1")]
        first_half_scored ==
            [i \in 1 .. n |-> Side(team_games[i], t, "home_1h", "away_1h")]
        wins ==
            SumSeq([i \in 1 .. n |->
                       Bit(points_scored[i] > points_allowed[i])])
        losses ==
            SumSeq([i \in 1 .. n |->
                       Bit(points_scored[i] < points_allowed[i])])
    IN  IF team_games = <<>> THEN None
        ELSE IF \E i \in 1 .. n : ~(ReadKeys \subseteq DOMAIN team_games[i])
        THEN KeyError
        ELSE [outcome |-> "stats",
              team_code |-> t,
              games_played |-> n,
              wins |-> wins,
              losses |-> losses,
              ties |-> n - wins - losses,
              win_pct |-> RoundHalfEven(1000 * wins, n),
              points_scored |-> points_scored,
              points_allowed |-> points_allowed,
              total_points_scored |-> SumSeq(points_scored),
              total_points_allowed |-> SumSeq(points_allowed),
              ppg_scored |-> compute_avg(points_scored),
              ppg_allowed |-> compute_avg(points_allowed),
              q1_ppg |-> compute_avg(q1_scored),
              first_half_ppg |-> compute_avg(first_half_scored),
              scoring_std_dev |-> compute_std(points_scored),
              scoring_consistency |->
                  compute_consistency(points_scored, up[1]),
              game_scored_ordered |-> game_scored_ordered,
              season_trend |-> season_trend,
              season_trend_direction |-> TrendDirection(season_trend)]

\* stats = compute_team_stats(games, team_code) of main's loop
CallTeamStats ==
    /\ pc = "idle"
    /\ \E gs \in GameLists, t \in Teams, up \in BOOLEAN \X BOOLEAN :
        /\ games' = gs
        /\ team_code' = t
        /\ team_out' = compute_team_stats(gs, t, up)
    /\ pc' = "team"
    /\ UNCHANGED <<values, consistency, changepoint>>
    /\ UNCHANGED <<rows, records, wp_rec, wp_out, sos_in, win_pcts, sos>>
    /\ UNCHANGED srsVars
    /\ UNCHANGED oddsVars
    /\ UNCHANGED buildVars
    /\ UNCHANGED backVars
    /\ UNCHANGED hfaVars

NextTeam == FetchRow \/ CallTeamStats

\* the two programs that read the games: get_team_records row by row and
\* compute_team_stats on a list
SpecTeam == Init /\ [][NextTeam]_vars

----------------------------------------------------------------------------
(* Games without a score. *)

\* the game has every key the stats are computed from
Usable(g) == ReadKeys \subseteq DOMAIN g

\* the completed games of the team that have their scores
UsableTeamGames ==
    SelectSeq(games, LAMBDA g : IsTeamGame(g, team_code) /\ Usable(g))

\* the fetched rows with both scores in which the team plays
ScoredRowsOf(t) == SumSeq([i \in 1 .. Len(rows) |-> Bit(Plays(rows[i], t))])

\* C19: a game without its score or its quarter and half fields is left out
\* by both programs, without a failure.  get_team_records counts for every
\* team only the rows that have both scores, and a team with no such row has
\* no record.  compute_team_stats never ends in an error, returns None when
\* the team has no completed game with its fields, and otherwise counts and
\* lists exactly the completed games that have them.
C19_UnusableGamesLeftOut ==
    /\ pc = "fold" =>
           \A t \in Teams :
               IF ScoredRowsOf(t) = 0 THEN t \notin DOMAIN records
               ELSE /\ t \in DOMAIN records
                    /\ GamesPlayed(records[t]) = ScoredRowsOf(t)
                    /\ Len(records[t].opponents) = ScoredRowsOf(t)
    /\ pc = "team" =>
           /\ team_out # KeyError
           /\ IF UsableTeamGames = <<>> THEN team_out = None
              ELSE /\ team_out.outcome = "stats"
                   /\ team_out.games_played = Len(UsableTeamGames)
                   /\ team_out.points_scored =
                          [i \in 1 .. Len(UsableTeamGames) |->
                              Side(UsableTeamGames[i], team_code,
                                   "home_score", "away_score")]

----------------------------------------------------------------------------
(* The guarded ratios: compute_win_pct, compute_sos, compute_consistency   *)
(* and the ROI of compute_summary, each called on its degenerate inputs.   *)

\* points a team can score in a game
SeriesValues == {0, 3, 10, 24}

Series == SeqsUpTo(SeriesValues, MaxValues)

\* results dicts written by hand: those of one prediction, with any count of
\* units wagered
HandResults ==
    {[AnalyzePrediction(NewResults, p) EXCEPT !.roi.units_wagered = u] :
        p \in Predictions, u \in 0 .. 1}

\* compute_consistency on a series
CallConsistency ==
    /\ pc = "idle"
    /\ \E vals \in Series, up \in BOOLEAN :
        /\ values' = vals
        /\ consistency' = compute_consistency(vals, up)
    /\ pc' = "consistency"
    /\ UNCHANGED <<games, team_code, team_out, changepoint>>
    /\ UNCHANGED <<rows, records, wp_rec, wp_out, sos_in, win_pcts, sos>>
    /\ UNCHANGED srsVars
    /\ UNCHANGED oddsVars
    /\ UNCHANGED buildVars
    /\ UNCHANGED backVars
    /\ UNCHANGED hfaVars

\* compute_summary on a results dict written by hand
SummariseHandBuilt ==
    /\ pc = "idle"
    /\ \E res \in HandResults :
        /\ results' = res
        /\ summary' = compute_summary(res)
    /\ pc' = "summary"
    /\ UNCHANGED preds
    /\ UNCHANGED <<rows, records, wp_rec, wp_out, sos_in, win_pcts, sos>>
    /\ UNCHANGED srsVars
    /\ UNCHANGED oddsVars
    /\ UNCHANGED buildVars
    /\ UNCHANGED hfaVars
    /\ UNCHANGED teamVars

NextRatios ==
    \/ CallWinPct
    \/ CallSos
    \/ CallConsistency
    \/ CallTeamStats
    \/ SummariseHandBuilt

SpecRatios == Init /\ [][NextRatios]_vars

\* the three fallbacks that are as the error taxonomy gives them
OtherFallbacks ==
    /\ (pc = "winpct" /\ GamesPlayed(wp_rec) = 0) => wp_out = Half
    /\ pc = "sos" =>
           \A t \in DOMAIN sos_in :
               sos_in[t].opponents = <<>> => sos[t] = Half
    /\ (pc = "summary" /\ summary # Empty /\ results.roi.units_wagered = 0) =>
           summary.roi.moneyline_roi = 0

\* the series has a mean and it is zero
ZeroMean(vals) == vals # <<>> /\ SumSeq(vals) = 0

\* C20 as stated: every degenerate ratio yields its fallback: win_pct of zero
\* games is 0.5, SOS of no opponents is 0.5, the ROI% of zero units wagered is
\* 0, and the consistency of any series of mean zero is 0.
C20_Original ==
    /\ OtherFallbacks
    /\ (pc = "consistency" /\ ZeroMean(values)) => consistency = 0
    /\ (pc = "team" /\ team_out.outcome = "stats"
            /\ ZeroMean(team_out.points_scored)) =>
           team_out.scoring_consistency = 0

\* C20: every degenerate ratio yields its fallback without an error: win_pct
\* of zero games is 0.5, SOS of no opponents is 0.5, the ROI% of a summary
\* over zero units wagered is 0, the consistency of a series of two or more
\* values of mean zero is 0, and the consistency of a series of fewer than
\* two values is 100 whatever its mean.
C20_DegenerateRatios ==
    /\ OtherFallbacks
    /\ pc = "consistency" =>
           /\ (Len(values) >= 2 /\ SumSeq(values) = 0) => consistency = 0
           /\ Len(values) < 2 => consistency = 1000
    /\ (pc = "team" /\ team_out.outcome = "stats") =>
           /\ (team_out.games_played >= 2
                   /\ SumSeq(team_out.points_scored) = 0) =>
                  team_out.scoring_consistency = 0
           /\ team_out.games_played < 2 =>
                  team_out.scoring_consistency = 1000

\* a team shut out in both of its two games has a consistency of 0
C20_Witness ==
    /\ pc = "team"
    /\ team_out.outcome = "stats"
    /\ team_out.points_scored = <<0, 0>>
    /\ team_out.scoring_std_dev = 0
    /\ team_out.scoring_consistency = 0

----------------------------------------------------------------------------
(* detect_changepoint.  The two window means are doubles: sum / 3 is held   *)
(* as the double of sum / 192, which has the same 53 bits 6 binary places   *)
(* lower, and the threshold 5.0 as 5 / 64.  The subtraction rounds          *)
(* monotonically and 5.0 is a double, so the rounded difference reaches     *)
(* the threshold exactly when the difference of the two doubles does.       *)
(* Window sums are 0 or 6 .. 192.                                           *)

MaxSeries == 6     \* values of a series passed to detect_changepoint

\* window=3
window == 3

\* threshold=5.0
threshold == 5

\* points scored in a game
ChangeValues == {4, 5, 9, 10}

ChangeSeries == SeqsUpTo(ChangeValues, MaxSeries)

\* sum(...) / window, a double, 6 binary places lower
WindowMean(total) == Double(total, 64 * window)

\* (False, None, 0)
NoChangepoint == [has_changepoint |-> FALSE, direction |-> "None", magnitude |-> 0]

\* the returned (has_changepoint, direction, magnitude), the magnitude in
\* tenths
detect_changepoint(vals) ==
    IF Len(vals) < window * 2 THEN NoChangepoint
    ELSE LET n == Len(vals)
             recent_sum == SumSeq(SubSeq(vals, n - window + 1, n))
             prior_sum == SumSeq(SubSeq(vals, n - 2 * window + 1, n - window))
             recent == WindowMean(recent_sum)
             prior == WindowMean(prior_sum)
         IN  IF ~DoubleLess(DoubleAbsDiff(recent, prior), Double(threshold, 64))
             THEN [has_changepoint |-> TRUE,
                   direction |-> IF DoubleLess(prior, recent) THEN "up"
                                 ELSE "down",
                   magnitude |->
                       RoundHalfEven(10 * (recent_sum - prior_sum), window)]
             ELSE NoChangepoint

\* detect_changepoint on a series
CallChangepoint ==
    /\ pc = "idle"
    /\ \E vals \in ChangeSeries :
        /\ values' = vals
        /\ changepoint' = detect_changepoint(vals)
    /\ pc' = "changepoint"
    /\ UNCHANGED <<games, team_code, team_out, consistency>>
    /\ UNCHANGED <<rows, records, wp_rec, wp_out, sos_in, win_pcts, sos>>
    /\ UNCHANGED srsVars
    /\ UNCHANGED oddsVars
    /\ UNCHANGED buildVars
    /\ UNCHANGED backVars
    /\ UNCHANGED hfaVars

MaxSeasonGames == 13    \* games of the team in the list of a season

\* the points of the team in the n games of a season: 22 in the first a
\* games of the earlier half and in the first b of the later half, 17 in the
\* others
SeasonScores(n, a, b) ==
    [i \in 1 .. n |->
        IF i <= a \/ (i > n \div 2 /\ i <= n \div 2 + b) THEN 22 ELSE 17]

\* the team's home game of week w, lost or won against 20 points
SeasonGame(sc, w) == [FullGame(<<"A", "B">>, TRUE, <<sc, 20>>) EXCEPT !.week = w]

\* the games of weeks 1, 2, ... with these scores, listed in week order or
\* the latest first
SeasonList(scores, latest_first) ==
    [i \in 1 .. Len(scores) |->
        LET w == IF latest_first THEN Len(scores) + 1 - i ELSE i
        IN  SeasonGame(scores[w], w)]

\* compute_team_stats on the games of a season
CallSeasonStats ==
    /\ pc = "idle"
    /\ \E n \in 0 .. MaxSeasonGames, latest_first \in BOOLEAN,
          up \in BOOLEAN \X BOOLEAN :
        \E a \in 0 .. n \div 2, b \in 0 .. n - n \div 2 :
            LET gs == SeasonList(SeasonScores(n, a, b), latest_first)
            IN  /\ games' = gs
                /\ team_code' = "A"
                /\ team_out' = compute_team_stats(gs, "A", up)
    /\ pc' = "team"
    /\ UNCHANGED <<values, consistency, changepoint>>
    /\ UNCHANGED <<rows, records, wp_rec, wp_out, sos_in, win_pcts, sos>>
    /\ UNCHANGED srsVars
    /\ UNCHANGED oddsVars
    /\ UNCHANGED buildVars
    /\ UNCHANGED backVars
    /\ UNCHANGED hfaVars

NextSeries == CallChangepoint \/ CallSeasonStats

\* the functions of a team's scoring series
SpecSeries == Init /\ [][NextSeries]_vars

\* the sum of the last `window` values less the sum of the `window` before
WindowDifference ==
    LET n == Len(values)
    IN  SumSeq(SubSeq(values, n - window + 1, n))
            - SumSeq(SubSeq(values, n - 2 * window + 1, n - window))

\* C21: with fewer than 2 x window values detect_changepoint returns
\* (False, None, 0); otherwise it flags a changepoint exactly when the mean
\* of the last window values and the mean of the window values before them
\* differ by the threshold or more, equality included, with direction up when
\* the recent mean is the greater and down when it is the smaller, and their
\* signed difference, to one decimal place, as magnitude.
C21_Changepoint ==
    pc = "changepoint" =>
        IF Len(values) < 2 * window THEN changepoint = NoChangepoint
        ELSE IF Abs(WindowDifference) >= threshold * window
             THEN /\ changepoint.has_changepoint
                  /\ changepoint.direction =
                         (IF WindowDifference > 0 THEN "up" ELSE "down")
                  /\ changepoint.magnitude =
                         RoundHalfEven(10 * WindowDifference, window)
             ELSE changepoint = NoChangepoint

----------------------------------------------------------------------------
(* The season trend. *)

\* the points the team scored in its game of week w
ScoredInWeek(w) ==
    LET g == CHOOSE x \in {games[i] : i \in 1 .. Len(games)} : x.week = w
    IN  Side(g, team_code, "home_score", "away_score")

\* the points of weeks from .. to
ScoredInWeeks(from, to) == SumSeq([i \in 1 .. to - from + 1 |-> ScoredInWeek(from + i - 1)])

\* mean(second half) - mean(first half) of the week-ordered series, times
\* the product of the two lengths
TrendNumerator ==
    LET n == Len(games)
        h == n \div 2
    IN  ScoredInWeeks(h + 1, n) * h - ScoredInWeeks(1, h) * (n - h)

TrendDenominator == (Len(games) \div 2) * (Len(games) - Len(games) \div 2)

\* a season of the team: every game of the list is a game of its own week
IsSeason ==
    /\ pc = "team"
    /\ team_out.outcome = "stats"
    /\ team_out.games_played = Len(games)
    /\ \A w \in 1 .. Len(games) : \E i \in 1 .. Len(games) : games[i].week = w

\* C22 as stated: with at least 4 games the direction is up when the trend,
\* mean(second half) - mean(first half) of the week-ordered series, is above
\* 2 however slightly, down when it is below -2, else flat.
C22_Original ==
    (IsSeason /\ Len(games) >= 4) =>
        team_out.season_trend_direction =
            (IF TrendNumerator > 2 * TrendDenominator THEN "up"
             ELSE IF TrendNumerator < -2 * TrendDenominator THEN "down"
             ELSE "flat")

\* C22: with at least 4 games the trend reported is
\* mean(second half) - mean(first half) of the week-ordered series rounded
\* to one decimal place, and the direction is taken from the rounded trend:
\* up if it is above 2.0, down if it is below -2.0, else flat; with fewer
\* than 4 games the trend is 0 and the direction flat.
C22_SeasonTrend ==
    IsSeason =>
        IF Len(games) >= 4
        THEN /\ 2 * Abs(10 * TrendNumerator
                            - team_out.season_trend * TrendDenominator)
                    <= TrendDenominator
             /\ team_out.season_trend_direction =
                    (IF team_out.season_trend > 20 THEN "up"
                     ELSE IF team_out.season_trend < -20 THEN "down"
                     ELSE "flat")
        ELSE /\ team_out.season_trend = 0
             /\ team_out.season_trend_direction = "flat"

\* thirteen games listed latest first, the later seven scoring 85/42 of a
\* point more a game than the earlier six: a trend of 2.0 and flat
C22_Witness ==
    /\ IsSeason
    /\ Len(games) = 13
    /\ games[1].week = 13
    /\ 42 * TrendNumerator = 85 * TrendDenominator
    /\ team_out.season_trend = 20
    /\ team_out.season_trend_direction = "flat"

----------------------------------------------------------------------------
(* The half-point quantizations of calculate_matchup_odds at exact halves. *)

\* (method1 + method2) / 2 before it is rounded, in hundredths
RawTotal ==
    5 * (Get(home_stats, "ppg_scored", DEFAULT_PPG)
         + Get(away_stats, "ppg_allowed", DEFAULT_PPG)
         + Get(away_stats, "ppg_scored", DEFAULT_PPG)
         + Get(home_stats, "ppg_allowed", DEFAULT_PPG))

\* the team totals before they are rounded, in hundredths
RawHomeTotal ==
    5 * (Get(home_stats, "ppg_scored", DEFAULT_PPG)
         + Get(away_stats, "ppg_allowed", DEFAULT_PPG)) + 125

RawAwayTotal ==
    5 * (Get(away_stats, "ppg_scored", DEFAULT_PPG)
         + Get(home_stats, "ppg_allowed", DEFAULT_PPG)) - 125

\* line is the value x put on the half-point grid, a doubled value of an
\* exact half going to the even integer
OnGridHalfEven(line, x) ==
    line % 50 = 0 /\ IsRounded(line \div 50, 2 * x, 100)

\* C23: the spread, the total and both team totals are their raw values
\* doubled, rounded half to even, and halved: an expected_diff that is
\* exactly 0.25 gives spread 0 and 0.75 gives -1.0, a raw total of 44.25
\* gives 44.0 and 44.75 gives 45.0.
C23_HalfToEven ==
    pc = "odds" =>
        /\ locals.drift = 0 => OnGridHalfEven(-odds.spread, locals.expected_diff)
        /\ OnGridHalfEven(odds.over_under, RawTotal)
        /\ OnGridHalfEven(odds.home_team_total, RawHomeTotal)
        /\ OnGridHalfEven(odds.away_team_total, RawAwayTotal)
        /\ locals.expected_diff = 25 /\ locals.drift = 0 => odds.spread = 0
        /\ locals.expected_diff = 75 /\ locals.drift = 0 => odds.spread = -100
        /\ RawTotal = 4425 => odds.over_under = 4400
        /\ RawTotal = 4475 => odds.over_under = 4500

\* a matchup with expected_diff 0.75, a raw total of 44.75 and a raw home
\* total of 24.0 + 1.25: spread -1.0, total 45.0
C23_Witness ==
    /\ pc = "odds"
    /\ locals.expected_diff = 75
    /\ locals.drift = 0
    /\ RawTotal = 4475
    /\ odds.spread = -100
    /\ odds.over_under = 4500

----------------------------------------------------------------------------
(* The backtest's reading of a matchup against the results build_odds
   stored with it. *)

\* home_margin_vs_spread of the backtest for the matchup build_odds has just
\* made, in hundredths of a point
BacktestMargin == 100 * (game.home_score - game.away_score) + matchup.spread

\* actual_total of the backtest for the same game, in hundredths
BacktestTotal == 100 * (game.home_score + game.away_score)

\* C24: with integer scores, lines on the half-point grid and total_points
\* the sum of the scores, the backtest puts a completed game in the spread
\* counter (push, covered, not_covered) and the total counter (push, over,
\* under) that match the spread_result (push, cover, miss) and total_result
\* build_odds stored for the matchup.
C24_BacktestAgreesWithBuild ==
    (pc = "matchup" /\ game.is_completed) =>
        /\ matchup.spread % 50 = 0
        /\ matchup.over_under % 50 = 0
        /\ game.total_points = game.home_score + game.away_score
        /\ SpreadOutcome(BacktestMargin) = "push"
               <=> matchup.spread_result = "push"
        /\ SpreadOutcome(BacktestMargin) = "covered"
               <=> matchup.spread_result = "cover"
        /\ SpreadOutcome(BacktestMargin) = "not_covered"
               <=> matchup.spread_result = "miss"
        /\ TotalOutcome(BacktestTotal, matchup.over_under)
               = matchup.total_result

\* a game half a point over its total line and half a point short of the
\* spread: stored as over and miss, counted as over and not_covered
C24_Witness ==
    /\ pc = "matchup"
    /\ game.is_completed
    /\ BacktestMargin = -50
    /\ BacktestTotal - matchup.over_under = 50
    /\ matchup.spread_result = "miss"
    /\ matchup.total_result = "over"
    /\ SpreadOutcome(BacktestMargin) = "not_covered"
    /\ TotalOutcome(BacktestTotal, matchup.over_under) = "over"

----------------------------------------------------------------------------
(* The counters of analyze_predictions against each other. *)

\* the sum of one field over the entries of a dict of dicts
FieldTotal(dict, field) == Total([k \in DOMAIN dict |-> dict[k][field]])

\* C25: after any list of predictions the three moneyline counters, the
\* three spread counters, the three total counters and the predicted counts
\* of the calibration buckets each add up to total_games, the number of
\* predictions evaluated; a prediction without a matching game, or not
\* marked completed, leaves the whole of results as it was.
C25_CounterSums ==
    /\ [](/\ results.total_games
                 = Cardinality({i \in 1 .. Len(preds) : Evaluated(preds[i])})
          /\ Total(results.moneyline) = results.total_games
          /\ Total(results.spread) = results.total_games
          /\ Total(results.total) = results.total_games
          /\ FieldTotal(results.calibration_buckets, "predicted")
                 = results.total_games)
    /\ [][(preds' # preds /\ ~Evaluated(preds'[Len(preds')]))
              => results' = results]_vars

\* a tied game counted once in each family of counters, then a prediction
\* whose game is missing, which counted nothing
C25_Witness ==
    /\ Len(preds) = 2
    /\ Evaluated(preds[1])
    /\ preds[2].game = NoGame
    /\ results.total_games = 1
    /\ results.moneyline.push = 1
    /\ Total(results.spread) = 1
    /\ Total(results.total) = 1
    /\ FieldTotal(results.calibration_buckets, "predicted") = 1

\* C29: with integer scores and spreads on the half-point grid the weekly
\* breakdown adds up to the season's counters: games to total_games,
\* ml_correct to moneyline.correct, spread_covered to spread.covered.
C29_WeeklySums ==
    /\ FieldTotal(results.by_week, "games") = results.total_games
    /\ FieldTotal(results.by_week, "ml_correct") = results.moneyline.correct
    /\ FieldTotal(results.by_week, "spread_covered") = results.spread.covered

\* two weeks with a game each, one of them covered by half a point
C29_Witness ==
    /\ Len(preds) = 2
    /\ DOMAIN results.by_week = {1, 2}
    /\ results.spread.covered = 2
    /\ results.moneyline.correct = 1
    /\ \E i \in 1 .. 2 :
           /\ Evaluated(preds[i])
           /\ 100 * (preds[i].game.home_score - preds[i].game.away_score)
                  + Get(preds[i].pred, "spread", 0) = 50

----------------------------------------------------------------------------
(* The balance of the records get_team_records returns. *)

\* C26: in the records folded from any sequence of games, summed over the
\* teams wins equal losses and points for equal points against, the ties
\* add up to an even number, B is in A's opponent list as often as A is in
\* B's, and every team in an opponent list has a record of its own.
C26_FoldBalance ==
    /\ FieldTotal(records, "wins") = FieldTotal(records, "losses")
    /\ FieldTotal(records, "pf") = FieldTotal(records, "pa")
    /\ FieldTotal(records, "ties") % 2 = 0
    /\ \A a \in Teams : \A b \in DOMAIN records :
           Occurrences(records[b].opponents, a)
               = IF a \in DOMAIN records
                 THEN Occurrences(records[a].opponents, b) ELSE 0

\* a 1-0 win and a 1-1 tie folded, a row without scores having been skipped
\* or not: three teams, one win, one loss, two ties
C26_Witness ==
    /\ Len(rows) = 2
    /\ DOMAIN records = Teams
    /\ FieldTotal(records, "wins") = 1
    /\ FieldTotal(records, "ties") = 2
    /\ FieldTotal(records, "pf") = 3

----------------------------------------------------------------------------
(* The ratings of compute_srs weighted by the games played. *)

\* the sum over the teams ts of games played x rating
RECURSIVE GamesWeightedSum(_, _, _)
GamesWeightedSum(ts, recs, ratings) ==
    IF ts = {} THEN RatInt(0)
    ELSE LET t == CHOOSE x \in ts : TRUE
         IN  RatAdd(GamesWeightedSum(ts \ {t}, recs, ratings),
                    RatMulInt(ratings[t], GamesPlayed(recs[t])))

\* C27: with the records get_team_records built, the sum over the teams of
\* games played x SRS is 0 before the first round of compute_srs, after
\* every round and in what it returns.
C27_WeightedRatingsCancel ==
    (pc \in {"srs", "done"} /\ hand = NoHand) =>
        /\ DOMAIN srs = DOMAIN records
        /\ GamesWeightedSum(DOMAIN srs, records, srs) = RatInt(0)

\* the ratings returned after the last round for three teams that played a
\* different number of games, none of them rated 0
C27_Witness ==
    /\ pc = "done"
    /\ hand = NoHand
    /\ round = ITERATIONS
    /\ DOMAIN srs = Teams
    /\ \A t \in Teams : srs[t] # RatInt(0)
    /\ \E t, u \in Teams : GamesPlayed(records[t]) # GamesPlayed(records[u])

----------------------------------------------------------------------------
(* The backtest's edge on the odds calculate_matchup_odds makes itself. *)

\* the record of calculate_matchup_odds as the prediction the backtest reads
OwnPrediction == [pred |-> odds]

\* both probabilities of the edge are doubles in [2^-5, 1]
EdgeInDoubleRange ==
    /\ odds.home_win_prob >= 32
    /\ odds.home_moneyline <= 3100

\* C28: for every record of calculate_matchup_odds the edge of the backtest,
\* home_win_prob less the probability the home moneyline implies, has
\* |edge| <= 0.05, and the backtest's test for a value bet fails on it.
C28_NoValueBetOnOwnOdds ==
    pc = "odds" =>
        /\ odds.home_moneyline = apply_vig(locals.home_win_prob)
        /\ odds.home_win_prob
               = RoundHalfEven(locals.home_win_prob, ProbScale \div 1000)
        /\ ~EdgeExceeds(OwnPrediction)
        /\ EdgeInDoubleRange =>
               ~IsValueBet(odds.home_win_prob, odds.home_moneyline)

\* a strong home favourite whose adjusted probability is capped at 0.99: a
\* moneyline of -9900 against a home_win_prob of at least 0.95
C28_Witness ==
    /\ pc = "odds"
    /\ odds.home_moneyline = -9900
    /\ odds.home_win_prob >= 950
    /\ EdgeNumerator(OwnPrediction) < 0
    /\ ~IsValueBet(odds.home_win_prob, odds.home_moneyline)

----------------------------------------------------------------------------
(* The win_pct of compute_team_stats against compute_win_pct. *)

\* the rows get_team_records fetches for the completed games of the list
CompletedRows ==
    LET done == SelectSeq(games, LAMBDA g : g.is_completed /\ Usable(g))
    IN  [i \in 1 .. Len(done) |->
            [home |-> done[i].home_team, away |-> done[i].away_team,
             home_score |-> done[i].home_score,
             away_score |-> done[i].away_score]]

\* every completed game of the list has its scores
AllCompletedScored ==
    \A i \in 1 .. Len(games) : games[i].is_completed => Usable(games[i])

\* C30: for every team and every list of completed games, the win_pct
\* compute_team_stats reports is, to three decimals, the compute_win_pct of
\* the record get_team_records builds for the team from the same games, tied
\* games included.
C30_WinPctAgrees ==
    (pc = "team" /\ AllCompletedScored /\ team_out.outcome = "stats") =>
        LET record == GetTeamRecords(CompletedRows)[team_code]
            win_pct == compute_win_pct(record)
        IN  /\ team_out.games_played = GamesPlayed(record)
            /\ 2 * Abs(1000 * win_pct[1] - team_out.win_pct * win_pct[2])
                   <= win_pct[2]

====
